---- MODULE Spec2Model ----
(***************************************************************************)
(* A model of the OCSF/OpenSearch scripts:                                 *)
(*   - the bulk upload loops: data/anubhav.py (log-parsing uploader with   *)
(*     retries), the per-class generator uploaders                         *)
(*     (data/http_activity/http_activity_uploader.py and its siblings) and *)
(*     data/composer/ocsf_composer.py;                                     *)
(*   - the Apache field validation and OCSF mapping of data/anubhav.py;    *)
(*   - the content-hash document IDs of                                    *)
(*     data/network-activity/network_activity_script.py and                *)
(*     data/sampledata.py;                                                 *)
(*   - the event generators, create_opensearch_client, main of             *)
(*     data/anubhav.py and the fetch loop and --file-only mode of          *)
(*     network_activity_script.py;                                         *)
(*   - schemas/os_init_localhost.py (main and the component templates),    *)
(*     run_continuous_ingestion of ingest_logs.py and upload_to_opensearch *)
(*     of data/manual/http_activity/samples/sampledata.py.                 *)
(* Each part has its own specification over the shared variables; the      *)
(* variables of the parts a specification does not run stay idle.          *)
(***************************************************************************)
EXTENDS Integers, Sequences, FiniteSets, TLC

(***************************************************************************)
(* Bounds of the model and program constants.                              *)
(***************************************************************************)
\* number of raw log lines read by anubhav.py
MaxLines == 3
\* largest --events / --events-per-type value
MaxEvents == 2
\* largest --batch-size value
MaxBatchSize == 2
\* most failed items one returning bulk call reports
MaxFailedItems == 1
\* generator configurations the composer model runs (five in the source)
NumConfigs == 2

\* upload_to_opensearch_ocsf(..., max_retries=3); main never passes another
max_retries == 3
\* "if consecutive_failures >= 5"
BackoffThreshold == 5

Min(a, b) == IF a < b THEN a ELSE b

RECURSIVE SumSeq(_)
SumSeq(s) == IF s = <<>> THEN 0 ELSE Head(s) + SumSeq(Tail(s))

RECURSIVE Concat(_)
Concat(ss) == IF ss = <<>> THEN <<>> ELSE Head(ss) \o Concat(Tail(ss))

Range(s) == {s[j] : j \in 1..Len(s)}

(***************************************************************************)
(* State of an uploader run.                                               *)
(***************************************************************************)
VARIABLES
    script,                \* which script runs: "anubhav", "generator", "composer", or "none"
    pc,                    \* position of the script
    lines,                 \* anubhav: raw_lines, each a kind of line
    nevents,               \* generator/composer: args.events / args.events_per_type
    batch_size,            \* args.batch_size
    imported,              \* composer: configs whose generator was imported
    cfg,                   \* composer: index of the config being processed
    batches,               \* the batches of the current upload loop, in loop order
    bi,                    \* number of batches of the current loop already finished
    retries,               \* anubhav: retries of the current batch
    consecutive_failures,  \* anubhav
    backoff_time,          \* anubhav
    successful,            \* successful counter of the current upload loop
    failed,                \* failed counter of the current upload loop
    failed_lines,          \* anubhav: lines that did not parse
    total_successful,      \* composer main
    total_failed,          \* composer main
    exit_status,           \* -1 while running, else the process exit status
    \* history of the bulk API, one entry per batch submitted so far
    submitted,             \* the batch (index name and documents) of each entry
    log                    \* the attempts of each entry: sleep before, outcome, sleep after

upVars == <<script, pc, lines, nevents, batch_size, imported, cfg, batches, bi,
            retries, consecutive_failures, backoff_time, successful, failed,
            failed_lines, total_successful, total_failed, exit_status,
            submitted, log>>

(***************************************************************************)
(* State of one pass of a parsed line through validate_and_sanitize_fields *)
(* and map_to_ocsf_network_activity (data/anubhav.py).                     *)
(***************************************************************************)
VARIABLES
    fpc,                   \* "idle", "parsed", "validated" or "mapped"
    parsed,                \* the dict parse_apache_log_line returned
    log_fields,            \* the dict as validate_and_sanitize_fields left it
    event                  \* map_to_ocsf_network_activity's event, or that it raised

fieldVars == <<fpc, parsed, log_fields, event>>

(***************************************************************************)
(* State of data/network-activity/network_activity_script.py uploading a   *)
(* list of normalized documents, and uploading the same documents again.   *)
(***************************************************************************)
VARIABLES
    npc,                   \* "idle", "build" (next batch), "bulk" (in upload_bulk) or "done"
    npass,                 \* 1 for the first upload of the documents, 2 for the second
    normalized_data_list,  \* the normalized documents of the run, each a dict; a batch
                           \* of them is the normalized_data_list of one call
    npos,                  \* how many of them the batches so far have covered
    bulk_data,             \* the bulk actions of the batch being uploaded
    actions,               \* every bulk action passed to helpers.bulk, with its pass
    indexed                \* the (_index, _id) pairs OpenSearch holds

nasVars == <<npc, npass, normalized_data_list, npos, bulk_data, actions, indexed>>

(***************************************************************************)
(* State of data/sampledata.py run twice over one sample data file.        *)
(***************************************************************************)
VARIABLES
    spc,       \* "idle", "load" (in the loop of load_and_send_data) or "done"
    srun,      \* 1 for the first run of the import, 2 for the second
    sample_data, \* the documents of the sample data file
    spos,      \* how many of them the loop has processed in this run
    clock,     \* what datetime.now() reads
    sent,      \* the index and id every document was passed to client.index with
    created    \* per run, the (index, id) pairs client.index created

sampleVars == <<spc, srun, sample_data, spos, clock, sent, created>>

(***************************************************************************)
(* State of the event generators and of the composer handing their events  *)
(* to upload_events.                                                       *)
(***************************************************************************)
VARIABLES
    gpc,         \* "idle", "ready" or "generated"
    generator,   \* the class whose generate_random_event ran last
    gevent,      \* the event it returned: a function from key paths to values
    gaction,     \* the bulk action the composer builds for the event
    first_keys   \* the key paths of the first event the generator returned

genVars == <<gpc, generator, gevent, gaction, first_keys>>

(***************************************************************************)
(* State of create_opensearch_client (network_activity_script.py and       *)
(* network-activity/main.py).                                              *)
(***************************************************************************)
VARIABLES
    cpc,             \* "idle", "loop", "returned" or "raised"
    retry_count,     \* the retry_count argument
    file_only_mode,  \* the file_only_mode argument
    attempt,         \* the loop variable
    outcomes,        \* what each attempt so far ended with
    info_calls,      \* calls of client.info() so far
    sleeps,          \* the arguments of time.sleep so far
    client_result,   \* "client" or "None" once returned
    raised_attempt   \* the attempt whose exception left the function, or -1

cliVars == <<cpc, retry_count, file_only_mode, attempt, outcomes, info_calls, sleeps,
             client_result, raised_attempt>>

(***************************************************************************)
(* State of main of data/anubhav.py up to the call of                      *)
(* upload_to_opensearch_ocsf, with the environment it runs in.             *)
(***************************************************************************)
VARIABLES
    mpc,             \* "idle", "validate", "credentials", "connect", "read", "upload" or "exited"
    file_exists,     \* os.path.exists(args.input)
    file_bytes,      \* os.path.getsize(args.input)
    max_size,        \* --max-size
    env_user,        \* OPENSEARCH_USER: "unset", "" or a name
    env_password,    \* OPENSEARCH_PASSWORD: "unset", "" or a password
    info_ok,         \* whether client.info() returns
    read_ok,         \* whether the file can be read
    main_bulk_calls, \* calls of helpers.bulk the process has made
    main_status      \* the exit status, -1 while running

mainVars == <<mpc, file_exists, file_bytes, max_size, env_user, env_password, info_ok,
              read_ok, main_bulk_calls, main_status>>

(***************************************************************************)
(* State of main of network_activity_script.py fetching batches with or    *)
(* without --file-only.                                                    *)
(***************************************************************************)
VARIABLES
    opc,            \* "idle", "main", "batch" or "done"
    flag_file_only, \* whether --file-only was given
    args_file_only, \* args.file_only, which main may set later
    output_dir,     \* whether --output-dir was given
    client,         \* "None" or "client"
    os_requests,    \* requests sent to OpenSearch so far
    remaining,      \* batches still to fetch
    docs_seen,      \* normalized documents handed to process_and_upload_batch
    files_written,  \* documents save_to_file wrote
    files_failed,   \* documents save_to_file could not write
    total_success,  \* sum of the success counts returned
    total_error     \* sum of the error counts returned

foVars == <<opc, flag_file_only, args_file_only, output_dir, client, os_requests,
            remaining, docs_seen, files_written, files_failed, total_success,
            total_error>>

(***************************************************************************)
(* State of the status and severity mapping of                             *)
(* map_to_ocsf_network_activity.                                           *)
(***************************************************************************)
VARIABLES
    tpc,            \* "idle", "code" or "mapped"
    code,           \* status_code, the integer of the three status digits
    labels          \* the event's status_id, status, severity_id and severity

statusVars == <<tpc, code, labels>>

(***************************************************************************)
(* State of main of os_init_localhost.py.                                  *)
(***************************************************************************)
VARIABLES
    ipc,                    \* "idle", "start", "component_files", "index", "index_files",
                            \* "init", "alias", "done" or "crashed"
    component_files,        \* _body.json files under component_templates_dir
    index_files,            \* _body.json files under index_templates_dir
    actor_template_exists,  \* whether one of the component files is the actor template
    todo,                   \* files the running installer's walk has still to visit
    success_count,          \* of the running installer
    error_count,            \* of the running installer
    component_result,       \* what install_component_templates returned
    index_result,           \* what install_index_templates returned
    raised_in,              \* "" or the installer an exception escaped from
    ism_raised,             \* whether put_policy raised inside ISM_INIT
    calls                   \* the functions main has called so far, in order

osVars == <<ipc, component_files, index_files, actor_template_exists, todo,
            success_count, error_count, component_result, index_result,
            raised_in, ism_raised, calls>>

(***************************************************************************)
(* State of install_component_templates of os_init_localhost.py, by the    *)
(* names of the templates.                                                 *)
(***************************************************************************)
VARIABLES
    kpc,            \* "idle", "walk", "actor", "answers", "returned" or "crashed"
    archive,        \* the names of the templates among the extracted _body.json files
    walk,           \* the names the walk has still to visit
    actor_seen,     \* actor_template_exists
    puts            \* the put_component_template calls so far, in order

ctVars == <<kpc, archive, walk, actor_seen, puts>>

(***************************************************************************)
(* State of run_continuous_ingestion of ingest_logs.py.                    *)
(***************************************************************************)
VARIABLES
    rpc,            \* "idle", "start", "fetch", "ingest", "sleep", "returned" (line 165),
                    \* "stopped" (line 183) or "raised" (a KeyboardInterrupt escaped)
    template_ok,    \* "none" or what create_index_template returned
    rounds,         \* passes of the while loop started so far
    interrupted,    \* whether a KeyboardInterrupt was raised
    trace           \* what was attempted so far, in order, with its outcome

ingVars == <<rpc, template_ok, rounds, interrupted, trace>>

(***************************************************************************)
(* State of upload_to_opensearch of samples/sampledata.py.                 *)
(***************************************************************************)
VARIABLES
    qpc,            \* "idle", "start", "upload", "returned" or "raised"
    events,         \* the list read from the input file, each a kind of JSON object
    su_batch_size,  \* batch_size
    su_batches,     \* the batches of the two upload loops, in order
    su_bi,          \* batches the loops have finished
    su_successful,  \* successful
    su_failed,      \* failed
    uploaded        \* the events handed to a helpers.bulk call

suVars == <<qpc, events, su_batch_size, su_batches, su_bi, su_successful, su_failed, uploaded>>

(***************************************************************************)
(* State of the non-continuous fetch loop of main of                       *)
(* network_activity_script.py.                                             *)
(***************************************************************************)
VARIABLES
    lpc,              \* "idle", "loop", "done" or "interrupted"
    arg_count,        \* args.count
    arg_batch_size,   \* args.batch_size
    nl_client,        \* "None" or "client"
    nl_output_dir,    \* whether --output-dir was given
    nl_remaining,     \* remaining
    nl_sizes,         \* current_batch of every batch so far
    nl_total_success, \* total_success
    nl_total_error    \* total_error

nlVars == <<lpc, arg_count, arg_batch_size, nl_client, nl_output_dir, nl_remaining,
            nl_sizes, nl_total_success, nl_total_error>>

\* what an uploader run leaves alone
notUploader == <<fieldVars, nasVars, sampleVars, genVars, cliVars, mainVars, foVars, statusVars, osVars, ctVars, ingVars, suVars, nlVars>>

\* what the field functions leave alone
notFields == <<upVars, nasVars, sampleVars, genVars, cliVars, mainVars, foVars, statusVars, osVars, ctVars, ingVars, suVars, nlVars>>

\* what network_activity_script.py leaves alone
notNas == <<upVars, fieldVars, sampleVars, genVars, cliVars, mainVars, foVars, statusVars, osVars, ctVars, ingVars, suVars, nlVars>>

\* what sampledata.py leaves alone
notSample == <<upVars, fieldVars, nasVars, genVars, cliVars, mainVars, foVars, statusVars, osVars, ctVars, ingVars, suVars, nlVars>>

\* what the generators leave alone
notGen == <<upVars, fieldVars, nasVars, sampleVars, cliVars, mainVars, foVars, statusVars, osVars, ctVars, ingVars, suVars, nlVars>>

\* what create_opensearch_client leaves alone
notCli == <<upVars, fieldVars, nasVars, sampleVars, genVars, mainVars, foVars, statusVars, osVars, ctVars, ingVars, suVars, nlVars>>

\* what main of anubhav.py leaves alone
notMain == <<upVars, fieldVars, nasVars, sampleVars, genVars, cliVars, foVars, statusVars, osVars, ctVars, ingVars, suVars, nlVars>>

\* what main of network_activity_script.py leaves alone
notFo == <<upVars, fieldVars, nasVars, sampleVars, genVars, cliVars, mainVars, statusVars, osVars, ctVars, ingVars, suVars, nlVars>>

\* what the status mapping leaves alone
notStatus == <<upVars, fieldVars, nasVars, sampleVars, genVars, cliVars, mainVars, foVars, osVars, ctVars, ingVars, suVars, nlVars>>

\* what main of os_init_localhost.py leaves alone
notOs == <<upVars, fieldVars, nasVars, sampleVars, genVars, cliVars, mainVars, foVars, statusVars, ctVars, ingVars, suVars, nlVars>>

\* what install_component_templates leaves alone
notCt == <<upVars, fieldVars, nasVars, sampleVars, genVars, cliVars, mainVars, foVars, statusVars, osVars, ingVars, suVars, nlVars>>

\* what run_continuous_ingestion leaves alone
notIng == <<upVars, fieldVars, nasVars, sampleVars, genVars, cliVars, mainVars, foVars, statusVars, osVars, ctVars, suVars, nlVars>>

\* what upload_to_opensearch of samples/sampledata.py leaves alone
notSu == <<upVars, fieldVars, nasVars, sampleVars, genVars, cliVars, mainVars, foVars, statusVars, osVars, ctVars, ingVars, nlVars>>

\* what the fetch loop leaves alone
notNl == <<upVars, fieldVars, nasVars, sampleVars, genVars, cliVars, mainVars, foVars, statusVars, osVars, ctVars, ingVars, suVars>>

vars == <<upVars, fieldVars, nasVars, sampleVars, genVars, cliVars, mainVars, foVars, statusVars, osVars, ctVars, ingVars, suVars, nlVars>>

(***************************************************************************)
(* data/anubhav.py: upload_to_opensearch_ocsf, parsing and grouping.       *)
(* A line is blank, unparseable ("bad"), or a parseable line whose         *)
(* timestamp falls on day 1 or day 2 ("d1", "d2"); a document is named by  *)
(* its line number.                                                        *)
(***************************************************************************)
LineKinds == {"blank", "bad", "d1", "d2", "sup"}

\* parse_apache_log_line: None for a line the pattern does not match
Parses(kind) == kind \in {"d1", "d2", "sup"}

\* line 126: a parseable line whose bytes field is made of digits that are not
\* decimal (such as a superscript two) passes isdigit() and int() raises
\* ValueError; kind "sup" is such a line
MapRaises(kind) == kind = "sup"

\* map_to_ocsf_network_activity's index_name, from the event's date
IndexName(kind) == IF kind = "d1" THEN "network_activity-day1" ELSE "network_activity-day2"

\* lines 243-267: the (event, index_name) list, in input order
RECURSIVE ParsedEvents(_, _)
ParsedEvents(ls, n) ==
    IF n > Len(ls) THEN <<>>
    ELSE IF Parses(ls[n])
         THEN <<[doc |-> n, index |-> IndexName(ls[n])]>> \o ParsedEvents(ls, n + 1)
         ELSE ParsedEvents(ls, n + 1)

\* a count that takes a blank line for a parse failure
CountFailedLinesWithBlank(ls) == Cardinality({n \in 1..Len(ls) : ~Parses(ls[n])})

\* lines 246-263: failed_lines counts the non-blank lines that did not parse
CountFailedLines(ls) == Cardinality({n \in 1..Len(ls) : ls[n] = "bad"})

\* lines 270-274: the keys of grouped_events in insertion order
RECURSIVE IndexOrder(_, _)
IndexOrder(evs, seen) ==
    IF evs = <<>> THEN <<>>
    ELSE IF Head(evs).index \in seen THEN IndexOrder(Tail(evs), seen)
         ELSE <<Head(evs).index>> \o IndexOrder(Tail(evs), seen \cup {Head(evs).index})

\* a grouping that puts each event in front of its group
RECURSIVE GroupOfPrepend(_, _)
GroupOfPrepend(evs, index) ==
    IF evs = <<>> THEN <<>>
    ELSE IF Head(evs).index = index THEN GroupOfPrepend(Tail(evs), index) \o <<Head(evs).doc>>
         ELSE GroupOfPrepend(Tail(evs), index)

\* grouped_events[index_name]: the documents of one index, in input order
RECURSIVE GroupOf(_, _)
GroupOf(evs, index) ==
    IF evs = <<>> THEN <<>>
    ELSE IF Head(evs).index = index THEN <<Head(evs).doc>> \o GroupOf(Tail(evs), index)
         ELSE GroupOf(Tail(evs), index)

\* a slicing that drops a final partial slice
SliceCountFloor(n, size) == n \div size

\* range(0, len(docs), size) with docs[i:i+size]: the number of slices of a list
SliceCount(n, size) == (n + size - 1) \div size

Slices(index, docs, size) ==
    [j \in 1..SliceCount(Len(docs), size) |->
        [index |-> index,
         docs  |-> SubSeq(docs, (j - 1) * size + 1, Min(j * size, Len(docs)))]]

\* lines 283-294: every batch of the run, in the order the loops visit them
AnubhavBatches(ls, size) ==
    LET evs   == ParsedEvents(ls, 1)
        order == IndexOrder(evs, {})
    IN  Concat([g \in 1..Len(order) |-> Slices(order[g], GroupOf(evs, order[g]), size)])

(***************************************************************************)
(* The history of the bulk API.                                            *)
(***************************************************************************)
Attempt(pre) == [pre |-> pre, out |-> "pending", post |-> 0]

CurLog == log[Len(log)]

\* the current batch's log with its last (pending) attempt completed
Complete(out, post) ==
    [log EXCEPT ![Len(log)] =
        [CurLog EXCEPT ![Len(CurLog)] = [@ EXCEPT !.out = out, !.post = post]]]

CurBatch == batches[bi + 1]


(***************************************************************************)
(* Initial states: one script is started with its command-line arguments.  *)
(***************************************************************************)
Scripts == {"anubhav", "generator", "composer"}

InitUploader ==
    /\ script \in Scripts
    /\ pc = "start"
    /\ lines \in (IF script = "anubhav" THEN [1..MaxLines -> LineKinds] ELSE {<<>>})
    /\ nevents \in (IF script = "anubhav" THEN {0} ELSE 0..MaxEvents)
    /\ batch_size \in 1..MaxBatchSize
    /\ imported = {}
    /\ cfg = 0
    /\ batches = <<>>
    /\ bi = 0
    /\ retries = 0
    /\ consecutive_failures = 0
    /\ backoff_time = 1
    /\ successful = 0
    /\ failed = 0
    /\ failed_lines = 0
    /\ total_successful = 0
    /\ total_failed = 0
    /\ exit_status = -1
    /\ submitted = <<>>
    /\ log = <<>>

(***************************************************************************)
(* data/anubhav.py: upload_to_opensearch_ocsf and the end of main.         *)
(***************************************************************************)
\* lines 246-265 and 411: map_to_ocsf_network_activity raises ValueError for a
\* line, nothing catches it, and the process dies with a traceback (status 1)
AnubhavParseRaises ==
    /\ script = "anubhav" /\ pc = "start"
    /\ \E n \in 1..Len(lines) : MapRaises(lines[n])
    /\ pc' = "crashed"
    /\ exit_status' = 1
    /\ UNCHANGED <<script, lines, nevents, batch_size, imported, cfg, batches, bi,
                   retries, consecutive_failures, backoff_time, successful, failed,
                   failed_lines, total_successful, total_failed, submitted, log>>
    /\ UNCHANGED notUploader

\* lines 243-281: parse, group, and initialise the counters
AnubhavParse ==
    /\ script = "anubhav" /\ pc = "start"
    /\ \A n \in 1..Len(lines) : ~MapRaises(lines[n])
    /\ failed_lines' = CountFailedLines(lines)
    /\ batches' = AnubhavBatches(lines, batch_size)
    /\ bi' = 0
    /\ successful' = 0
    /\ failed' = 0
    /\ consecutive_failures' = 0
    /\ backoff_time' = 1
    /\ pc' = "batch"
    /\ UNCHANGED <<script, lines, nevents, batch_size, imported, cfg, retries,
                   total_successful, total_failed, exit_status, submitted, log>>
    /\ UNCHANGED notUploader

\* lines 283-297: the next batch's bulk_actions are built and retries = 0
AnubhavStartBatch ==
    /\ script = "anubhav" /\ pc = "batch" /\ bi < Len(batches)
    /\ retries' = 0
    /\ submitted' = Append(submitted, CurBatch)
    /\ log' = Append(log, <<>>)
    /\ pc' = "attempt"
    /\ UNCHANGED <<script, lines, nevents, batch_size, imported, cfg, batches, bi,
                   consecutive_failures, backoff_time, successful, failed,
                   failed_lines, total_successful, total_failed, exit_status>>
    /\ UNCHANGED notUploader

\* line 298: while retries < max_retries
RetryAllowed(r) == r < max_retries

\* line 300: if consecutive_failures >= 5
\* a backoff that starts one failure later
BackoffDueLate(cf) == cf > BackoffThreshold

BackoffDue(cf) == cf >= BackoffThreshold

\* lines 298-312: the backoff sleep if due, then helpers.bulk is called
AnubhavBulkCall ==
    /\ script = "anubhav" /\ pc = "attempt" /\ RetryAllowed(retries)
    /\ IF BackoffDue(consecutive_failures)
       THEN /\ log' = [log EXCEPT ![Len(log)] = Append(@, Attempt(backoff_time))]
            /\ backoff_time' = backoff_time * 2
       ELSE /\ log' = [log EXCEPT ![Len(log)] = Append(@, Attempt(0))]
            /\ backoff_time' = backoff_time
    /\ pc' = "bulk"
    /\ UNCHANGED <<script, lines, nevents, batch_size, imported, cfg, batches, bi,
                   retries, consecutive_failures, successful, failed, failed_lines,
                   total_successful, total_failed, exit_status, submitted>>
    /\ UNCHANGED notUploader

\* lines 314-324: helpers.bulk returned (success, failed_items), k items failed
AnubhavBulkReturn(k) ==
    /\ script = "anubhav" /\ pc = "bulk"
    /\ k <= Len(CurBatch.docs)
    /\ successful' = successful + (Len(CurBatch.docs) - k)
    /\ consecutive_failures' = 0
    /\ backoff_time' = 1
    /\ failed' = failed + k
    /\ log' = Complete("ok", 0)
    /\ bi' = bi + 1
    /\ pc' = "batch"
    /\ UNCHANGED <<script, lines, nevents, batch_size, imported, cfg, batches,
                   retries, failed_lines, total_successful, total_failed,
                   exit_status, submitted>>
    /\ UNCHANGED notUploader

\* line 332: time.sleep(retries * 2)
RetryDelayDoubling(r) == 2 ^ r

RetryDelay(r) == r * 2

\* lines 326-332: helpers.bulk raised
AnubhavBulkRaise ==
    /\ script = "anubhav" /\ pc = "bulk"
    /\ retries' = retries + 1
    /\ consecutive_failures' = consecutive_failures + 1
    /\ failed' = IF retries' >= max_retries THEN failed + Len(CurBatch.docs) ELSE failed
    /\ log' = Complete("raise", RetryDelay(retries'))
    /\ pc' = "attempt"
    /\ UNCHANGED <<script, lines, nevents, batch_size, imported, cfg, batches, bi,
                   backoff_time, successful, failed_lines, total_successful,
                   total_failed, exit_status, submitted>>
    /\ UNCHANGED notUploader

\* line 298: the while condition is false, the retry loop is left
AnubhavRetriesExhausted ==
    /\ script = "anubhav" /\ pc = "attempt" /\ ~RetryAllowed(retries)
    /\ bi' = bi + 1
    /\ pc' = "batch"
    /\ UNCHANGED <<script, lines, nevents, batch_size, imported, cfg, batches,
                   retries, consecutive_failures, backoff_time, successful, failed,
                   failed_lines, total_successful, total_failed, exit_status,
                   submitted, log>>
    /\ UNCHANGED notUploader

\* line 334: return successful, failed, failed_lines
AnubhavReturn ==
    /\ script = "anubhav" /\ pc = "batch" /\ bi = Len(batches)
    /\ pc' = "summary"
    /\ UNCHANGED <<script, lines, nevents, batch_size, imported, cfg, batches, bi,
                   retries, consecutive_failures, backoff_time, successful, failed,
                   failed_lines, total_successful, total_failed, exit_status,
                   submitted, log>>
    /\ UNCHANGED notUploader

\* an exit test that looks at the parse failures only
AnubhavExitStatusParseOnly(f, fl) == IF fl > 0 THEN 1 ELSE 0

\* lines 416-418: sys.exit(1) if failed > 0 or failed_lines > 0, else main returns
AnubhavExitStatus(f, fl) == IF f > 0 \/ fl > 0 THEN 1 ELSE 0

\* lines 413-418: main logs the counters and exits
AnubhavExit ==
    /\ script = "anubhav" /\ pc = "summary"
    /\ exit_status' = AnubhavExitStatus(failed, failed_lines)
    /\ pc' = "exited"
    /\ UNCHANGED <<script, lines, nevents, batch_size, imported, cfg, batches, bi,
                   retries, consecutive_failures, backoff_time, successful, failed,
                   failed_lines, total_successful, total_failed, submitted, log>>
    /\ UNCHANGED notUploader

AnubhavNext ==
    \/ AnubhavParseRaises
    \/ AnubhavParse
    \/ AnubhavStartBatch
    \/ AnubhavBulkCall
    \/ \E k \in 0..MaxFailedItems : AnubhavBulkReturn(k)
    \/ AnubhavBulkRaise
    \/ AnubhavRetriesExhausted
    \/ AnubhavReturn
    \/ AnubhavExit

(***************************************************************************)
(* The generator uploaders (http_activity_uploader.py main and its         *)
(* siblings) and OCSFComposer.upload_events: one bulk call per batch, no   *)
(* retry.  A document is named by its position among the generated events. *)
(***************************************************************************)
\* events = [generator.generate_random_event() for _ in range(n)], numbered from first
GeneratedDocs(first, n) == [j \in 1..n |-> first + j - 1]

\* http_activity_uploader.py lines 263-270: the events, index name and counters
GeneratorGenerate ==
    /\ script = "generator" /\ pc = "start"
    /\ batches' = Slices("http_activity", GeneratedDocs(1, nevents), batch_size)
    /\ bi' = 0
    /\ successful' = 0
    /\ failed' = 0
    /\ pc' = "batch"
    /\ UNCHANGED <<script, lines, nevents, batch_size, imported, cfg, retries,
                   consecutive_failures, backoff_time, failed_lines,
                   total_successful, total_failed, exit_status, submitted, log>>
    /\ UNCHANGED notUploader

\* a submission that does not wait for the outstanding call (a thread pool)
UploaderBulkCallConcurrent ==
    /\ script \in {"generator", "composer"} /\ pc \in {"batch", "bulk"}
    /\ bi < Len(batches)
    /\ submitted' = Append(submitted, CurBatch)
    /\ log' = Append(log, <<Attempt(0)>>)
    /\ pc' = "bulk"
    /\ UNCHANGED <<script, lines, nevents, batch_size, imported, cfg, batches, bi,
                   retries, consecutive_failures, backoff_time, successful, failed,
                   failed_lines, total_successful, total_failed, exit_status>>
    /\ UNCHANGED notUploader

\* upload_events lines 76-88 / main lines 272-286: the batch's actions are built
\* and helpers.bulk is called
UploaderBulkCall ==
    /\ script \in {"generator", "composer"} /\ pc = "batch" /\ bi < Len(batches)
    /\ submitted' = Append(submitted, CurBatch)
    /\ log' = Append(log, <<Attempt(0)>>)
    /\ pc' = "bulk"
    /\ UNCHANGED <<script, lines, nevents, batch_size, imported, cfg, batches, bi,
                   retries, consecutive_failures, backoff_time, successful, failed,
                   failed_lines, total_successful, total_failed, exit_status>>
    /\ UNCHANGED notUploader

\* upload_events lines 90-93 / main lines 287-291: helpers.bulk returned
UploaderBulkReturn(k) ==
    /\ script \in {"generator", "composer"} /\ pc = "bulk"
    /\ k <= Len(CurBatch.docs)
    /\ successful' = successful + (Len(CurBatch.docs) - k)
    /\ failed' = failed + k
    /\ log' = Complete("ok", 0)
    /\ bi' = bi + 1
    /\ pc' = "batch"
    /\ UNCHANGED <<script, lines, nevents, batch_size, imported, cfg, batches,
                   retries, consecutive_failures, backoff_time, failed_lines,
                   total_successful, total_failed, exit_status, submitted>>
    /\ UNCHANGED notUploader

\* the except branch counting nothing
FailedAfterRaiseLost(f, n) == f

\* upload_events line 96 / main line 294: failed += len(batch)
FailedAfterRaise(f, n) == f + n

\* upload_events lines 94-96 / main lines 292-294: helpers.bulk raised
UploaderBulkRaise ==
    /\ script \in {"generator", "composer"} /\ pc = "bulk"
    /\ failed' = FailedAfterRaise(failed, Len(CurBatch.docs))
    /\ log' = Complete("raise", 0)
    /\ bi' = bi + 1
    /\ pc' = "batch"
    /\ UNCHANGED <<script, lines, nevents, batch_size, imported, cfg, batches,
                   retries, consecutive_failures, backoff_time, successful,
                   failed_lines, total_successful, total_failed, exit_status,
                   submitted>>
    /\ UNCHANGED notUploader

\* http_activity_uploader.py lines 296-303: the summary; "successful/args.events"
\* raises ZeroDivisionError when no event was asked for, else main returns
GeneratorExit ==
    /\ script = "generator" /\ pc = "batch" /\ bi = Len(batches)
    /\ exit_status' = IF nevents = 0 THEN 1 ELSE 0
    /\ pc' = "exited"
    /\ UNCHANGED <<script, lines, nevents, batch_size, imported, cfg, batches, bi,
                   retries, consecutive_failures, backoff_time, successful, failed,
                   failed_lines, total_successful, total_failed, submitted, log>>
    /\ UNCHANGED notUploader

(***************************************************************************)
(* data/composer/ocsf_composer.py: main.                                   *)
(***************************************************************************)
Configs == 1..NumConfigs

\* generators_config[c]['index']
ConfigIndex(c) == <<"config", c>>

\* lines 149-155: import_generator for every config; a failed import is logged
\* and leaves the generator out of self.generators
ComposerImport ==
    /\ script = "composer" /\ pc = "start"
    /\ imported' \in SUBSET Configs
    /\ total_successful' = 0
    /\ total_failed' = 0
    /\ cfg' = 1
    /\ pc' = "config"
    /\ UNCHANGED <<script, lines, nevents, batch_size, batches, bi, retries,
                   consecutive_failures, backoff_time, successful, failed,
                   failed_lines, exit_status, submitted, log>>
    /\ UNCHANGED notUploader

\* lines 158-168 and 71-74: generate_batch, then upload_events starts
ComposerGenerate ==
    /\ script = "composer" /\ pc = "config" /\ cfg <= NumConfigs
    /\ cfg \in imported
    /\ batches' = Slices(ConfigIndex(cfg),
                         GeneratedDocs((cfg - 1) * nevents + 1, nevents), batch_size)
    /\ bi' = 0
    /\ successful' = 0
    /\ failed' = 0
    /\ pc' = "batch"
    /\ UNCHANGED <<script, lines, nevents, batch_size, imported, cfg, retries,
                   consecutive_failures, backoff_time, failed_lines,
                   total_successful, total_failed, exit_status, submitted, log>>
    /\ UNCHANGED notUploader

\* lines 65-66 and 175-176: generate_batch raises ValueError for a generator that
\* was not imported; main logs it and goes on with the next config
ComposerSkip ==
    /\ script = "composer" /\ pc = "config" /\ cfg <= NumConfigs
    /\ cfg \notin imported
    /\ cfg' = cfg + 1
    /\ UNCHANGED <<script, pc, lines, nevents, batch_size, imported, batches, bi,
                   retries, consecutive_failures, backoff_time, successful, failed,
                   failed_lines, total_successful, total_failed, exit_status,
                   submitted, log>>
    /\ UNCHANGED notUploader

\* lines 98 and 170-173: upload_events returns, main adds to the totals
ComposerUploadDone ==
    /\ script = "composer" /\ pc = "batch" /\ bi = Len(batches)
    /\ total_successful' = total_successful + successful
    /\ total_failed' = total_failed + failed
    /\ cfg' = cfg + 1
    /\ pc' = "config"
    /\ UNCHANGED <<script, lines, nevents, batch_size, imported, batches, bi,
                   retries, consecutive_failures, backoff_time, successful, failed,
                   failed_lines, exit_status, submitted, log>>
    /\ UNCHANGED notUploader

\* lines 178-185: the summary; the success rate divides by
\* total_successful + total_failed and raises ZeroDivisionError when it is 0
ComposerExit ==
    /\ script = "composer" /\ pc = "config" /\ cfg > NumConfigs
    /\ exit_status' = IF total_successful + total_failed = 0 THEN 1 ELSE 0
    /\ pc' = "exited"
    /\ UNCHANGED <<script, lines, nevents, batch_size, imported, cfg, batches, bi,
                   retries, consecutive_failures, backoff_time, successful, failed,
                   failed_lines, total_successful, total_failed, submitted, log>>
    /\ UNCHANGED notUploader

UploaderNext ==
    \/ GeneratorGenerate
    \/ UploaderBulkCall
    \/ \E k \in 0..MaxFailedItems : UploaderBulkReturn(k)
    \/ UploaderBulkRaise
    \/ GeneratorExit
    \/ ComposerImport
    \/ ComposerGenerate
    \/ ComposerSkip
    \/ ComposerUploadDone
    \/ ComposerExit

IdleFields ==
    /\ fpc = "idle"
    /\ parsed = <<>>
    /\ log_fields = <<>>
    /\ event = <<>>

IdleNas ==
    /\ npc = "idle"
    /\ npass = 0
    /\ normalized_data_list = <<>>
    /\ npos = 0
    /\ bulk_data = <<>>
    /\ actions = {}
    /\ indexed = {}

IdleSample ==
    /\ spc = "idle"
    /\ srun = 0
    /\ sample_data = <<>>
    /\ spos = 0
    /\ clock = 0
    /\ sent = {}
    /\ created = <<{}, {}>>

IdleGen ==
    /\ gpc = "idle"
    /\ generator = "none"
    /\ gevent = <<>>
    /\ gaction = <<>>
    /\ first_keys = {}

IdleCli ==
    /\ cpc = "idle"
    /\ retry_count = 0
    /\ file_only_mode = FALSE
    /\ attempt = 0
    /\ outcomes = <<>>
    /\ info_calls = 0
    /\ sleeps = <<>>
    /\ client_result = "unset"
    /\ raised_attempt = -1

IdleMain ==
    /\ mpc = "idle"
    /\ file_exists = FALSE
    /\ file_bytes = 0
    /\ max_size = 0
    /\ env_user = "unset"
    /\ env_password = "unset"
    /\ info_ok = FALSE
    /\ read_ok = FALSE
    /\ main_bulk_calls = 0
    /\ main_status = -1

IdleFo ==
    /\ opc = "idle"
    /\ flag_file_only = FALSE
    /\ args_file_only = FALSE
    /\ output_dir = FALSE
    /\ client = "None"
    /\ os_requests = 0
    /\ remaining = 0
    /\ docs_seen = 0
    /\ files_written = 0
    /\ files_failed = 0
    /\ total_success = 0
    /\ total_error = 0

IdleStatus ==
    /\ tpc = "idle"
    /\ code = 0
    /\ labels = [status_id |-> 0, status |-> "", severity_id |-> 0, severity |-> ""]

IdleOs ==
    /\ ipc = "idle"
    /\ component_files = 0
    /\ index_files = 0
    /\ actor_template_exists = FALSE
    /\ todo = 0
    /\ success_count = 0
    /\ error_count = 0
    /\ component_result = FALSE
    /\ index_result = FALSE
    /\ raised_in = ""
    /\ ism_raised = FALSE
    /\ calls = <<>>

IdleCt ==
    /\ kpc = "idle"
    /\ archive = {}
    /\ walk = {}
    /\ actor_seen = FALSE
    /\ puts = <<>>

IdleIng ==
    /\ rpc = "idle"
    /\ template_ok = "none"
    /\ rounds = 0
    /\ interrupted = FALSE
    /\ trace = <<>>

IdleSu ==
    /\ qpc = "idle"
    /\ events = <<>>
    /\ su_batch_size = 1
    /\ su_batches = <<>>
    /\ su_bi = 0
    /\ su_successful = 0
    /\ su_failed = 0
    /\ uploaded = {}

IdleNl ==
    /\ lpc = "idle"
    /\ arg_count = 0
    /\ arg_batch_size = 1
    /\ nl_client = "None"
    /\ nl_output_dir = FALSE
    /\ nl_remaining = 0
    /\ nl_sizes = <<>>
    /\ nl_total_success = 0
    /\ nl_total_error = 0

Init == InitUploader /\ IdleFields /\ IdleNas /\ IdleSample /\ IdleGen /\ IdleCli /\ IdleMain /\ IdleFo /\ IdleStatus /\ IdleOs /\ IdleCt /\ IdleIng /\ IdleSu /\ IdleNl

Next == AnubhavNext \/ UploaderNext

Spec == Init /\ [][Next]_vars

(***************************************************************************)
(* data/anubhav.py: validate_and_sanitize_fields and the numeric part of   *)
(* map_to_ocsf_network_activity.  A string is a sequence of characters;    *)
(* "^2" stands for a digit that is not decimal (the superscript two),      *)
(* "\n" for a line feed.                                                   *)
(***************************************************************************)
\* the characters Python's int() reads as decimal digits and regex \d matches
DecimalDigits == {"0", "1", "2", "3", "4", "5", "6", "7", "8", "9"}

\* the characters str.isdigit() accepts: the decimal digits and digits such as
\* the superscripts
IsdigitChars == DecimalDigits \cup {"^2"}

DigitValue(c) ==
    CASE c = "0" -> 0 [] c = "1" -> 1 [] c = "2" -> 2 [] c = "3" -> 3 [] c = "4" -> 4
      [] c = "5" -> 5 [] c = "6" -> 6 [] c = "7" -> 7 [] c = "8" -> 8 [] c = "9" -> 9

Strs(alphabet, lo, hi) == UNION {[1..n -> alphabet] : n \in lo..hi}

\* what the groups of parse_apache_log_line's pattern can hold (lines 39-48):
\* ip and bytes are \S+, request is [^"]*, status is \d{3}
IpChars == {"1", ".", "a"}
RequestChars == {"G", ";", "|", ">"}
StatusChars == {"2", "5"}
BytesChars == {"7", "-", "^2"}
\* \d{3}
StatusLen == 3
MaxIpLen == 2
MaxRequestLen == 1
MaxBytesLen == 2

ParsedFields ==
    [ip      : Strs(IpChars, 1, MaxIpLen),
     request : Strs(RequestChars, 0, MaxRequestLen),
     status  : Strs(StatusChars, StatusLen, StatusLen),
     bytes   : Strs(BytesChars, 1, MaxBytesLen)]

\* line 75: re.match(r'^[\d\.]+$', ip); "$" also matches before a final line feed
IpPatternMatches(ip) ==
    LET body == IF ip # <<>> /\ ip[Len(ip)] = "\n" THEN SubSeq(ip, 1, Len(ip) - 1) ELSE ip
    IN  /\ body # <<>>
        /\ \A j \in 1..Len(body) : body[j] \in DecimalDigits \cup {"."}

\* a request test that forgets the redirection character
RequestIsUnsafeNoRedirect(request) ==
    \E j \in 1..Len(request) : request[j] \in {";", "|"}

\* line 80: ';' in request or '|' in request or '>' in request
RequestIsUnsafe(request) ==
    \E j \in 1..Len(request) : request[j] \in {";", "|", ">"}

\* str.isdigit(): non-empty and every character a digit
Isdigit(str) == str # <<>> /\ \A j \in 1..Len(str) : str[j] \in IsdigitChars

DefaultIp == <<"0", ".", "0", ".", "0", ".", "0">>
DefaultRequest == <<"I", "N", "V", "A", "L", "I", "D", "_", "R", "E", "Q", "U", "E", "S", "T">>
DefaultStatus == <<"0">>
DefaultBytes == <<"0">>

\* lines 73-93
validate_and_sanitize_fields(fields) ==
    [ip      |-> IF ~IpPatternMatches(fields.ip) THEN DefaultIp ELSE fields.ip,
     request |-> IF RequestIsUnsafe(fields.request) THEN DefaultRequest ELSE fields.request,
     status  |-> IF ~Isdigit(fields.status) THEN DefaultStatus ELSE fields.status,
     bytes   |-> IF ~(Isdigit(fields.bytes) \/ fields.bytes = <<"-">>)
                 THEN DefaultBytes ELSE fields.bytes]

\* int(str) for a string without sign or blanks: the decimal value;
\* ValueError when the string is empty or a character is not a decimal digit
RECURSIVE DecimalValue(_)
DecimalValue(str) ==
    IF str = <<>> THEN 0
    ELSE 10 * DecimalValue(SubSeq(str, 1, Len(str) - 1)) + DigitValue(str[Len(str)])

IntRaises(str) == str = <<>> \/ \E j \in 1..Len(str) : str[j] \notin DecimalDigits

\* lines 119-122: int(status), 0 on ValueError
StatusCode(status) == IF IntRaises(status) THEN 0 ELSE DecimalValue(status)

\* line 126: int(size_str) if size_str.isdigit() else 0
SizeRaises(size_str) == Isdigit(size_str) /\ IntRaises(size_str)

SizeOf(size_str) == IF Isdigit(size_str) THEN DecimalValue(size_str) ELSE 0

\* no event: the value of event before the mapping, and the numbers of an event
\* that was never built
NoEvent == [raised |-> FALSE, code |-> -1, length |-> -1, bytes_out |-> -1]

\* lines 119-126 and 226-234: the numeric fields of the event; the ValueError of
\* line 126 is not caught
map_to_ocsf_network_activity(fields) ==
    IF SizeRaises(fields.bytes) THEN [NoEvent EXCEPT !.raised = TRUE]
    ELSE [raised    |-> FALSE,
          code      |-> StatusCode(fields.status),
          length    |-> SizeOf(fields.bytes),
          bytes_out |-> SizeOf(fields.bytes)]

InitFields ==
    /\ fpc = "parsed"
    /\ parsed \in ParsedFields
    /\ log_fields = parsed
    /\ event = NoEvent

\* line 260: validated_fields = validate_and_sanitize_fields(parsed)
Validate ==
    /\ fpc = "parsed"
    /\ log_fields' = validate_and_sanitize_fields(log_fields)
    /\ fpc' = "validated"
    /\ UNCHANGED <<parsed, event>>
    /\ UNCHANGED notFields

\* line 265: event, index_name = map_to_ocsf_network_activity(validated_fields)
Map ==
    /\ fpc = "validated"
    /\ event' = map_to_ocsf_network_activity(log_fields)
    /\ fpc' = "mapped"
    /\ UNCHANGED <<parsed, log_fields>>
    /\ UNCHANGED notFields

IdleUploader ==
    /\ script = "none"
    /\ pc = "idle"
    /\ lines = <<>>
    /\ nevents = 0
    /\ batch_size = 1
    /\ imported = {}
    /\ cfg = 0
    /\ batches = <<>>
    /\ bi = 0
    /\ retries = 0
    /\ consecutive_failures = 0
    /\ backoff_time = 1
    /\ successful = 0
    /\ failed = 0
    /\ failed_lines = 0
    /\ total_successful = 0
    /\ total_failed = 0
    /\ exit_status = -1
    /\ submitted = <<>>
    /\ log = <<>>

FieldsInit == InitFields /\ IdleUploader /\ IdleNas /\ IdleSample /\ IdleGen /\ IdleCli /\ IdleMain /\ IdleFo /\ IdleStatus /\ IdleOs /\ IdleCt /\ IdleIng /\ IdleSu /\ IdleNl

FieldsNext == Validate \/ Map

FieldsSpec == FieldsInit /\ [][FieldsNext]_vars

\* the characters of a string
Chars(str) == {str[j] : j \in 1..Len(str)}

\* C9: for parsed fields, validate_and_sanitize_fields returns an ip made only
\* of digits and dots, a request without ';', '|', '>', a status made only of
\* digits and a bytes made only of digits or equal to '-' (digits as
\* str.isdigit() knows them); a field that already was so is unchanged, and a
\* field that was not is '0.0.0.0', 'INVALID_REQUEST', '0', '0'.
C9_SanitizedFields ==
    fpc \in {"validated", "mapped"} =>
        LET IpOk(f)      == f.ip # <<>> /\ Chars(f.ip) \subseteq DecimalDigits \cup {"."}
            RequestOk(f) == Chars(f.request) \cap {";", "|", ">"} = {}
            StatusOk(f)  == f.status # <<>> /\ Chars(f.status) \subseteq IsdigitChars
            BytesOk(f)   == \/ f.bytes # <<>> /\ Chars(f.bytes) \subseteq IsdigitChars
                            \/ f.bytes = <<"-">>
        IN  /\ IpOk(log_fields) /\ RequestOk(log_fields)
            /\ StatusOk(log_fields) /\ BytesOk(log_fields)
            /\ log_fields.ip = IF IpOk(parsed) THEN parsed.ip ELSE DefaultIp
            /\ log_fields.request =
                   IF RequestOk(parsed) THEN parsed.request ELSE DefaultRequest
            /\ log_fields.status = IF StatusOk(parsed) THEN parsed.status ELSE DefaultStatus
            /\ log_fields.bytes = IF BytesOk(parsed) THEN parsed.bytes ELSE DefaultBytes

\* C9 witness: a dict with a bad ip, a request holding '>' and a bytes that is
\* neither digits nor '-' has been sanitized, its status kept.
C9_Witness ==
    /\ fpc = "validated"
    /\ "a" \in Chars(parsed.ip) /\ log_fields.ip = DefaultIp
    /\ ">" \in Chars(parsed.request) /\ log_fields.request = DefaultRequest
    /\ parsed.bytes = <<"7", "-">> /\ log_fields.bytes = DefaultBytes
    /\ log_fields.status = parsed.status

\* C10: for the fields validate_and_sanitize_fields returns,
\* map_to_ocsf_network_activity does not raise, length and bytes_out are the
\* integer value of bytes when bytes is numeric and 0 otherwise, and code is
\* the integer status.
C10_NumericCoercion ==
    fpc = "mapped" =>
        /\ ~event.raised
        /\ LET size == IF log_fields.bytes # <<>>
                          /\ Chars(log_fields.bytes) \subseteq DecimalDigits
                       THEN DecimalValue(log_fields.bytes) ELSE 0
           IN  /\ event.length = size
               /\ event.bytes_out = size
               /\ event.code = DecimalValue(log_fields.status)

\* every script is one sequential process that always takes its next step, and
\* each bulk call returns or raises (request_timeout=30)
FairSpec == Spec /\ WF_vars(Next)

(***************************************************************************)
(* Properties of the upload loops.                                         *)
(***************************************************************************)
Returned == pc \in {"summary", "exited"}

\* the attempts of history entry b that raised
Raised(b) == {j \in 1..Len(log[b]) : log[b][j].out = "raise"}

\* the number of bulk calls that included document d
Calls(d) ==
    SumSeq([b \in 1..Len(log) |->
               IF d \in Range(submitted[b].docs) THEN Len(log[b]) ELSE 0])

\* the number of batches that included document d
BatchesOf(d) == Cardinality({b \in 1..Len(submitted) : d \in Range(submitted[b].docs)})

\* the documents the run parsed or generated
AllDocs ==
    CASE script = "anubhav"   -> {n \in 1..Len(lines) : Parses(lines[n])}
      [] script = "generator" -> 1..nevents
      [] script = "composer"  ->
             UNION {Range(GeneratedDocs((c - 1) * nevents + 1, nevents)) : c \in imported}
      [] OTHER -> {}

\* the script's failed-document counter
FailedCounter == IF script = "composer" THEN total_failed ELSE failed

\* the history entries of the current upload loop are the loop's first batches
StartedInLoop == IF pc \in {"attempt", "bulk"} THEN bi + 1 ELSE bi

SubmittedInOrder ==
    /\ StartedInLoop <= Len(submitted)
    /\ SubSeq(submitted, Len(submitted) - StartedInLoop + 1, Len(submitted))
         = SubSeq(batches, 1, StartedInLoop)

\* C1: in upload_to_opensearch_ocsf every batch gets at most max_retries bulk
\* calls, no call follows a call of the same batch that returned (only the last
\* attempt of a batch may be other than a raise), and the function eventually
\* returns whatever the bulk calls do.
C1_BoundedRetriesAndReturn ==
    /\ [](script = "anubhav" =>
            \A b \in 1..Len(log) :
                /\ Len(log[b]) <= max_retries
                /\ \A j \in 1..(Len(log[b]) - 1) : log[b][j].out = "raise")
    /\ <>(script = "anubhav" => Returned)

\* C1 witness: the function has returned after every bulk call of two or more
\* batches raised, each batch having used all its max_retries attempts.
C1_Witness ==
    /\ script = "anubhav" /\ Returned /\ Len(log) >= 2
    /\ \A b \in 1..Len(log) : Cardinality(Raised(b)) = max_retries

\* C2 as stated: the delay slept after failed attempt k+1 of a batch is twice
\* the delay slept after failed attempt k.
C2_DelayDoubles ==
    script = "anubhav" =>
        \A b \in 1..Len(log) : \A j \in 1..(Len(log[b]) - 1) :
            (j \in Raised(b) /\ j + 1 \in Raised(b)) =>
                log[b][j + 1].post = 2 * log[b][j].post

\* C2 amended: the delay slept after the k-th failed attempt of a batch is 2*k
\* seconds, so each delay is 2 seconds longer than the one before.
C2_DelayLinear ==
    script = "anubhav" =>
        \A b \in 1..Len(log) : \A j \in Raised(b) :
            /\ log[b][j].post = 2 * j
            /\ j + 1 \in Raised(b) => log[b][j + 1].post = log[b][j].post + 2

\* C2 witness: a batch whose three attempts all raised and were slept after.
C2_Witness ==
    /\ script = "anubhav"
    /\ \E b \in 1..Len(log) : Raised(b) = 1..3

\* C3 as stated: in every uploader script, a failed counter above zero at the
\* end of the upload loop gives a non-zero exit status.
C3_FailedExitsNonZero ==
    (pc = "exited" /\ FailedCounter > 0) => exit_status # 0

\* C3 amended: in anubhav.py, a failed counter above zero at the end of the
\* upload loop gives a non-zero exit status.
C3_AnubhavFailedExitsNonZero ==
    (script = "anubhav" /\ pc = "exited" /\ failed > 0) => exit_status # 0

\* C3 witness: anubhav.py has exited with failed documents and no parse failure.
C3_Witness ==
    script = "anubhav" /\ pc = "exited" /\ failed > 0 /\ failed_lines = 0

\* C4: in the generator uploaders and upload_events, a bulk call that raises
\* adds the batch's size to failed and leaves successful alone, and the loop
\* goes on: whatever raised, the batches submitted are the loop's batches in
\* order, and all of them once the loop is left.
C4_RaiseCountsBatchAndContinues ==
    /\ [][(script \in {"generator", "composer"} /\ pc = "bulk"
            /\ log'[Len(log)][1].out = "raise")
          => (/\ failed' = failed + Len(CurBatch.docs)
              /\ successful' = successful
              /\ pc' = "batch" /\ bi' = bi + 1)]_vars
    /\ [](script \in {"generator", "composer"} =>
            /\ pc \in {"batch", "bulk", "exited"} => SubmittedInOrder
            /\ (script = "generator" /\ pc = "exited") => bi = Len(batches))

\* C4 witness: a generator run has exited after a bulk call of a batch that was
\* not the last one raised.
C4_Witness ==
    /\ script = "generator" /\ pc = "exited"
    /\ \E b \in 1..(Len(log) - 1) : log[b][1].out = "raise"
    /\ failed > 0

\* C5 as stated: at the end of a run every parsed or generated document has
\* been included in exactly one bulk call.
C5_ExactlyOneCall ==
    pc = "exited" => \A d \in AllDocs : Calls(d) = 1

\* C5 amended: in a run that reaches its end every parsed or generated
\* document belongs to exactly one batch; the generator uploaders and the
\* composer pass that batch to the bulk API exactly once; anubhav.py passes it
\* once and once more after each call that raised, so between 1 and max_retries
\* times.  A run of anubhav.py that map_to_ocsf_network_activity ends with a
\* ValueError has made no bulk call.
C5_OneBatchBoundedCalls ==
    /\ pc = "crashed" => \A d \in AllDocs : Calls(d) = 0
    /\ pc = "exited" =>
        \A d \in AllDocs :
            /\ BatchesOf(d) = 1
            /\ Calls(d) >= 1
            /\ script # "anubhav" => Calls(d) = 1
            /\ script = "anubhav" =>
                 /\ Calls(d) <= max_retries
                 /\ \A b \in 1..Len(log) :
                       d \in Range(submitted[b].docs) =>
                           Calls(d) = Cardinality(Raised(b))
                                        + (IF Raised(b) = 1..Len(log[b]) THEN 0 ELSE 1)

\* C5 witness: anubhav.py has exited with one document submitted max_retries
\* times and another submitted once.
C5_Witness ==
    /\ script = "anubhav" /\ pc = "exited"
    /\ \E d \in AllDocs : Calls(d) = max_retries
    /\ \E d \in AllDocs : Calls(d) = 1

\* C8: at most one bulk request is outstanding, and batches are submitted one
\* after another in loop order: only the latest attempt of the latest batch can
\* be outstanding, a batch gets no attempt once a later batch was started, and
\* the batches started are the loop's batches in order.
C8_OneOutstandingInOrder ==
    /\ [](\A b \in 1..Len(log) : \A j \in 1..Len(log[b]) :
             log[b][j].out = "pending" => (b = Len(log) /\ j = Len(log[b])))
    /\ [](pc \in {"batch", "attempt", "bulk"} => SubmittedInOrder)
    /\ [][\A b \in 1..Len(log) : b < Len(log') => log'[b] = log[b]]_vars

\* C8 witness: the second batch of a loop is outstanding after the first batch's
\* call raised.
C8_Witness ==
    /\ pc = "bulk" /\ Len(log) >= 2 /\ bi >= 1
    /\ log[Len(log) - 1][Len(log[Len(log) - 1])].out = "raise"
    /\ CurLog[Len(CurLog)].out = "pending"


(***************************************************************************)
(* JSON documents.  A dict is the sequence of its <<key, value>> pairs in  *)
(* insertion order, keys distinct; a value is a <<kind, number>> pair.     *)
(***************************************************************************)
DictKeys(d) == {d[j][1] : j \in 1..Len(d)}

\* d[k]
DictGet(d, k) == d[CHOOSE j \in 1..Len(d) : d[j][1] = k][2]

\* d[k] = v: an existing key keeps its place, a new key goes last
DictPut(d, k, v) ==
    IF k \in DictKeys(d)
    THEN [j \in 1..Len(d) |-> IF d[j][1] = k THEN <<k, v>> ELSE d[j]]
    ELSE Append(d, <<k, v>>)

\* d.update(e)
RECURSIVE DictUpdate(_, _)
DictUpdate(d, e) ==
    IF e = <<>> THEN d ELSE DictUpdate(DictPut(d, Head(e)[1], Head(e)[2]), Tail(e))

\* Python's d1 == d2: the same keys with the same values, in any order
DictEqual(d1, d2) == Range(d1) = Range(d2)

\* the keys of the model in the order sorted() gives them
KeyOrder == <<"@timestamp", "body", "event", "metadata", "observedTimestamp", "traceId">>

\* json.dumps(d) without sort_keys: the pairs in insertion order
JsonDumpsUnsorted(d) == d

\* json.dumps(d, sort_keys=True): the pairs in key order
JsonDumps(d) ==
    LET present == SelectSeq(KeyOrder, LAMBDA k : k \in DictKeys(d))
    IN  [j \in 1..Len(present) |-> <<present[j], DictGet(d, present[j])>>]

\* hashlib.md5(s.encode()).hexdigest(), taken as free of collisions: the digest
\* names the string digested
Md5(str) == <<"md5", str>>

\* every dict of the given <<key, value>> pairs, in every insertion order
DictsOver(pairs, maxlen) ==
    {d \in Strs(pairs, 0, maxlen) :
        \A i, j \in 1..Len(d) : d[i][1] = d[j][1] => i = j}

(***************************************************************************)
(* data/network-activity/network_activity_script.py:                       *)
(* process_and_upload_batch and upload_bulk with a connected client.       *)
(***************************************************************************)
\* --index
DefaultIndex == "ocsf-1.1.0-4001-network_activity"

\* documents per upload, size of a batch, keys per document
MaxDocs == 2
NasBatch == 1
MaxKeys == 2

NormalizedDocs ==
    DictsOver({"@timestamp", "traceId"} \X {<<"str", 1>>, <<"str", 2>>}, MaxKeys)

\* lines 222-224 and 312-314: doc_id = md5(json.dumps(data, sort_keys=True))
DocId(data) == Md5(JsonDumps(data))

\* lines 216-231: the bulk action of a document
BulkAction(index, data) == [_index |-> index, _id |-> DocId(data), _source |-> data]

IdPair(a) == <<a._index, a._id>>

InitNas ==
    /\ npc = "build"
    /\ npass = 1
    /\ normalized_data_list \in Strs(NormalizedDocs, 1, MaxDocs)
    /\ npos = 0
    /\ bulk_data = <<>>
    /\ actions = {}
    /\ indexed = {}

\* lines 212-235: bulk_data is built for the next documents and upload_bulk called
ProcessAndUploadBatch ==
    /\ npc = "build" /\ npos < Len(normalized_data_list)
    /\ LET last == Min(npos + NasBatch, Len(normalized_data_list))
           data == SubSeq(normalized_data_list, npos + 1, last)
       IN  /\ bulk_data' = [j \in 1..Len(data) |-> BulkAction(DefaultIndex, data[j])]
           /\ npos' = last
    /\ actions' = actions \cup {[pass |-> npass, action |-> bulk_data'[j]] :
                                   j \in 1..Len(bulk_data')}
    /\ npc' = "bulk"
    /\ UNCHANGED <<npass, normalized_data_list, indexed>>
    /\ UNCHANGED notNas

\* lines 185-190: helpers.bulk returned, every action was indexed
UploadBulkReturn ==
    /\ npc = "bulk"
    /\ indexed' = indexed \cup {IdPair(bulk_data[j]) : j \in 1..Len(bulk_data)}
    /\ npc' = "build"
    /\ UNCHANGED <<npass, normalized_data_list, npos, bulk_data, actions>>
    /\ UNCHANGED notNas

\* lines 191-193: helpers.bulk raised, after indexing any part of the actions
UploadBulkRaise ==
    /\ npc = "bulk"
    /\ \E part \in SUBSET {IdPair(bulk_data[j]) : j \in 1..Len(bulk_data)} :
           indexed' = indexed \cup part
    /\ npc' = "build"
    /\ UNCHANGED <<npass, normalized_data_list, npos, bulk_data, actions>>
    /\ UNCHANGED notNas

\* the script is run again over the same normalized documents: dicts equal to
\* the first run's, in any order of documents and of keys
UploadAgain ==
    /\ npc = "build" /\ npos = Len(normalized_data_list) /\ npass = 1
    /\ normalized_data_list' \in
           {l \in Strs(NormalizedDocs, Len(normalized_data_list), Len(normalized_data_list)) :
               /\ \A j \in 1..Len(l) : \E i \in 1..Len(normalized_data_list) :
                      DictEqual(l[j], normalized_data_list[i])
               /\ \A i \in 1..Len(normalized_data_list) : \E j \in 1..Len(l) :
                      DictEqual(l[j], normalized_data_list[i])}
    /\ npass' = 2
    /\ npos' = 0
    /\ UNCHANGED <<npc, bulk_data, actions, indexed>>
    /\ UNCHANGED notNas

\* the second upload has ended
NasDone ==
    /\ npc = "build" /\ npos = Len(normalized_data_list) /\ npass = 2
    /\ npc' = "done"
    /\ UNCHANGED <<npass, normalized_data_list, npos, bulk_data, actions, indexed>>
    /\ UNCHANGED notNas

NasInit == InitNas /\ IdleUploader /\ IdleFields /\ IdleSample /\ IdleGen /\ IdleCli /\ IdleMain /\ IdleFo /\ IdleStatus /\ IdleOs /\ IdleCt /\ IdleIng /\ IdleSu /\ IdleNl

NasNext ==
    \/ ProcessAndUploadBatch
    \/ UploadBulkReturn
    \/ UploadBulkRaise
    \/ UploadAgain
    \/ NasDone

NasSpec == NasInit /\ [][NasNext]_vars

\* the (_index, _id) pairs of the bulk actions of one pass
PairsOfPass(p) == {IdPair(a.action) : a \in {x \in actions : x.pass = p}}

\* C6: the _id of a bulk action depends on the document's content only: two
\* bulk actions whose documents are equal have equal _id, and the second
\* upload of the same normalized documents brings no (_index, _id) pair the
\* first upload did not have, so the number of distinct pairs does not grow.
C6_ContentHashIds ==
    /\ \A a, b \in actions :
           DictEqual(a.action._source, b.action._source) => a.action._id = b.action._id
    /\ npc = "done" =>
           /\ PairsOfPass(2) \subseteq PairsOfPass(1)
           /\ Cardinality(PairsOfPass(1) \cup PairsOfPass(2)) = Cardinality(PairsOfPass(1))

\* C6 witness: two documents were uploaded twice, the second time with a
\* document whose keys come in another order, and OpenSearch holds both.
C6_Witness ==
    /\ npc = "done"
    /\ Cardinality(PairsOfPass(1)) = 2
    /\ indexed = PairsOfPass(1)
    /\ \E a, b \in actions :
           /\ a.pass = 1 /\ b.pass = 2
           /\ a.action._source # b.action._source
           /\ DictEqual(a.action._source, b.action._source)


(***************************************************************************)
(* data/sampledata.py: transform_to_ocsf, determine_index and the loop of  *)
(* load_and_send_data, run twice over the same sample data file.           *)
(***************************************************************************)
\* documents in the file, values uuid.uuid4() is drawn from
MaxFileDocs == 2
MaxUuid == 2

\* event values: category web with type access, category authentication,
\* and the {"category": "logs", "type": "raw"} of line 116
WebAccess == <<"event", 1>>
Authentication == <<"event", 2>>
LogsRaw == <<"event", 3>>

\* the metadata of lines 101-108
CustomLoggerMetadata == <<"metadata", 0>>

\* the documents a sample data file may hold
SampleDocs ==
    DictsOver({<<"@timestamp", <<"str", 1>>>>, <<"traceId", <<"str", 1>>>>,
               <<"body", <<"str", 1>>>>, <<"event", WebAccess>>,
               <<"event", Authentication>>}, MaxKeys)

\* lines 41-76, for documents without "dns" and "api" in their text
determine_index(document) ==
    IF "event" \in DictKeys(document) /\ DictGet(document, "event") = Authentication
    THEN "ocsf-1.1.0-3002-authentication"
    ELSE "ocsf-1.1.0-4002-http_activity"

\* lines 78-122, now being what datetime.now() reads and uuid what uuid.uuid4()
\* returns
transform_to_ocsf(document, now, uuid) ==
    IF "@timestamp" \in DictKeys(document)
    THEN document
    ELSE LET basic  == <<<<"@timestamp", <<"time", now>>>>,
                         <<"observedTimestamp", <<"time", now>>>>,
                         <<"metadata", CustomLoggerMetadata>>>>
             merged == DictUpdate(basic, document)
             evt    == IF "event" \in DictKeys(merged)
                       THEN merged ELSE DictPut(merged, "event", LogsRaw)
         IN  IF "traceId" \in DictKeys(evt)
             THEN evt ELSE DictPut(evt, "traceId", <<"uuid", uuid>>)

\* lines 148-150: doc_id = md5(json.dumps(ocsf_doc, sort_keys=True))
SampleDocId(ocsf_doc) == Md5(JsonDumps(ocsf_doc))

InitSample ==
    /\ spc = "load"
    /\ srun = 1
    /\ sample_data \in Strs(SampleDocs, 1, MaxFileDocs)
    /\ spos = 0
    /\ clock = 0
    /\ sent = {}
    /\ created = <<{}, {}>>

\* what the loop body passes to client.index for the next document
Sending(uuid) ==
    LET ocsf_doc == transform_to_ocsf(sample_data[spos + 1], clock, uuid)
    IN  [run |-> srun, pos |-> spos + 1, doc |-> sample_data[spos + 1],
         index |-> determine_index(ocsf_doc), id |-> SampleDocId(ocsf_doc)]

\* lines 140-162: a document is transformed and client.index stores it
IndexDocument ==
    /\ spc = "load" /\ spos < Len(sample_data)
    /\ \E uuid \in 1..MaxUuid :
           LET s    == Sending(uuid)
               pair == <<s.index, s.id>>
           IN  /\ sent' = sent \cup {s}
               /\ created' = IF pair \in created[1] \cup created[2]
                             THEN created
                             ELSE [created EXCEPT ![srun] = @ \cup {pair}]
    /\ spos' = spos + 1
    /\ clock' = clock + 1
    /\ UNCHANGED <<spc, srun, sample_data>>
    /\ UNCHANGED notSample

\* lines 167-169: client.index raised and the loop goes on
IndexDocumentRaises ==
    /\ spc = "load" /\ spos < Len(sample_data)
    /\ \E uuid \in 1..MaxUuid : sent' = sent \cup {Sending(uuid)}
    /\ spos' = spos + 1
    /\ clock' = clock + 1
    /\ UNCHANGED <<spc, srun, sample_data, created>>
    /\ UNCHANGED notSample

\* the import is run again over the same file, at a later time
RunAgain ==
    /\ spc = "load" /\ spos = Len(sample_data) /\ srun = 1
    /\ srun' = 2
    /\ spos' = 0
    /\ clock' = clock + 1
    /\ UNCHANGED <<spc, sample_data, sent, created>>
    /\ UNCHANGED notSample

\* the second run has ended
SampleDone ==
    /\ spc = "load" /\ spos = Len(sample_data) /\ srun = 2
    /\ spc' = "done"
    /\ UNCHANGED <<srun, sample_data, spos, clock, sent, created>>
    /\ UNCHANGED notSample

SampleInit == InitSample /\ IdleUploader /\ IdleFields /\ IdleNas /\ IdleGen /\ IdleCli /\ IdleMain /\ IdleFo /\ IdleStatus /\ IdleOs /\ IdleCt /\ IdleIng /\ IdleSu /\ IdleNl

SampleNext ==
    \/ IndexDocument
    \/ IndexDocumentRaises
    \/ RunAgain
    \/ SampleDone

SampleSpec == SampleInit /\ [][SampleNext]_vars

AnyValue(keys) == [k \in keys |-> "*"]

\* the metadata dict every OCSF generator writes
MetadataKeys ==
    {"metadata.version", "metadata.product.name", "metadata.product.vendor_name",
     "metadata.product.version", "metadata.original_time"}

\* http_activity_uploader.py lines 29-41
http_methods == {"GET", "POST", "PUT", "DELETE", "HEAD", "OPTIONS", "PATCH"}
http_status_codes ==
    {<<200, "Success">>, <<201, "Success">>, <<301, "Redirect">>, <<302, "Redirect">>,
     <<400, "Client Error">>, <<401, "Client Error">>, <<403, "Client Error">>,
     <<404, "Client Error">>, <<500, "Server Error">>, <<503, "Server Error">>}

\* lines 81-157: the keys of the event literal
HttpBaseKeys ==
    {"time", "activity_id", "activity_name", "severity",
     "src_endpoint.ip", "src_endpoint.port", "src_endpoint.geo.country",
     "src_endpoint.geo.country_code", "src_endpoint.geo.city",
     "src_endpoint.geo.location.lat", "src_endpoint.geo.location.lon",
     "dst_endpoint.ip", "dst_endpoint.port", "dst_endpoint.hostname",
     "http_request.url.path", "http_request.url.full", "http_request.url.query",
     "http_request.headers.user-agent", "http_request.headers.content-type",
     "http_request.headers.accept", "http_request.version", "http_request.bytes",
     "http_response.message", "http_response.headers.content-type",
     "http_response.headers.server", "http_response.bytes",
     "user_agent.original", "user_agent.device.name", "user_agent.device.type",
     "user_agent.browser.name", "user_agent.browser.version",
     "user_agent.os.name", "user_agent.os.version"} \cup MetadataKeys

\* line 160: if method in ["POST", "PUT", "PATCH"]
HasBody(method) == method \in {"POST", "PUT", "PATCH"}

\* an error test that takes only server errors
HasErrorServerOnly(status_code) == status_code >= 500

\* line 164: if status_code >= 400
HasError(status_code) == status_code >= 400

\* HTTPActivityGenerator.generate_random_event, lines 73-171
HttpEvent(method, status) ==
    LET status_code == status[1]
    IN  ("class_uid" :> 4002) @@ ("class_name" :> "HTTP Activity")
        @@ ("status" :> status[2])
        @@ ("status_id" :> IF status_code < 400 THEN 1 ELSE IF status_code < 500 THEN 2 ELSE 3)
        @@ ("severity_id" :> IF status_code < 400 THEN 1 ELSE IF status_code < 500 THEN 3 ELSE 4)
        @@ ("http_request.method" :> method)
        @@ ("http_response.status_code" :> status_code)
        @@ AnyValue(HttpBaseKeys)
        @@ (IF HasBody(method) THEN AnyValue({"http_request.content_type"}) ELSE <<>>)
        @@ (IF HasError(status_code)
            THEN AnyValue({"error.code", "error.message", "error.details"}) ELSE <<>>)

\* auth_activity_uploader.py lines 28-35 and 48-52
auth_types == {"Password", "Multi-Factor", "Certificate", "Token", "SSO", "Biometric"}
auth_statuses == {<<"Success", 1>>, <<"Failure", 2>>, <<"Error", 3>>}

\* lines 69-117: the keys of the event literal
AuthBaseKeys ==
    {"time", "activity_id", "activity_name", "severity_id", "severity",
     "auth_protocol", "auth_protocol_id", "authentication.type_id",
     "authentication.session_id", "actor.user.name", "actor.user.uid",
     "actor.user.type", "actor.user.domain", "src_endpoint.ip",
     "src_endpoint.hostname", "src_endpoint.port", "dst_endpoint.ip",
     "dst_endpoint.hostname", "dst_endpoint.port", "application.name",
     "application.uid"} \cup MetadataKeys

\* AuthenticationGenerator.generate_random_event, lines 61-132
AuthEvent(auth_type, status_info) ==
    ("class_uid" :> 3002) @@ ("class_name" :> "Authentication")
    @@ ("status" :> status_info[1]) @@ ("status_id" :> status_info[2])
    @@ ("authentication.type" :> auth_type)
    @@ AnyValue(AuthBaseKeys)
    @@ (IF status_info[1] # "Success"
        THEN AnyValue({"message", "authentication.failure_code"}) ELSE <<>>)
    @@ (IF auth_type = "Multi-Factor"
        THEN AnyValue({"authentication.mfa.type", "authentication.mfa.success",
                       "authentication.mfa.attempt"})
        ELSE <<>>)

\* dns_activity_uploader.py lines 28-31 and 46-49
dns_query_types == {"A", "AAAA", "MX", "NS", "PTR", "CNAME", "TXT", "SOA"}
dns_statuses ==
    {<<"NOERROR", 1>>, <<"NXDOMAIN", 2>>, <<"SERVFAIL", 3>>, <<"REFUSED", 4>>,
     <<"FORMERR", 5>>}

\* line 101: response_count = random.randint(1, 3)
MinAnswers == 1
MaxAnswers == 3

\* lines 60-96: the keys of the event literal
DnsBaseKeys ==
    {"time", "activity_id", "activity_name", "severity_id", "severity",
     "dns_query.type_id", "dns_query.name", "dns_query.response_code",
     "dns_query.response_code_id", "src_endpoint.ip", "src_endpoint.port",
     "src_endpoint.hostname", "dst_endpoint.ip", "dst_endpoint.port",
     "dst_endpoint.hostname"} \cup MetadataKeys

\* DNSActivityGenerator.generate_random_event, lines 54-112; every query type
\* is a key of self.responses, so each of the response_count answers is appended
DnsEvent(query_type, status, response_count) ==
    ("class_uid" :> 4003) @@ ("class_name" :> "DNS Activity")
    @@ ("status" :> status[1]) @@ ("status_id" :> status[2])
    @@ ("dns_query.type" :> query_type)
    @@ AnyValue(DnsBaseKeys)
    @@ (IF status[1] = "NOERROR"
        THEN ("dns_query.answers" :> response_count)
             @@ AnyValue({"dns_query.answers[].type", "dns_query.answers[].type_id",
                          "dns_query.answers[].data", "dns_query.answers[].ttl"})
        ELSE <<>>)

\* account_change_uploader.py lines 29-36
account_actions ==
    {<<"create", 1>>, <<"modify", 2>>, <<"delete", 3>>, <<"enable", 4>>,
     <<"disable", 5>>, <<"lock", 6>>, <<"unlock", 7>>, <<"password_change", 8>>}
account_status_codes == {<<"success", 1>>, <<"failure", 2>>, <<"error", 3>>}

\* lines 50-92: the keys of the event literal
AccountBaseKeys ==
    {"time", "activity_name", "status", "severity_id", "severity",
     "actor.user.name", "actor.user.uid", "actor.user.type", "actor.user.domain",
     "actor.user.groups", "target.user.name", "target.user.uid", "target.user.type",
     "target.user.domain", "target.user.groups", "auth_protocol",
     "unmapped.session_id", "unmapped.request_id"} \cup MetadataKeys

\* AccountChangeGenerator.generate_random_event, lines 42-110
AccountEvent(action, status) ==
    ("class_uid" :> 3001) @@ ("class_name" :> "Account Change")
    @@ ("activity_id" :> action[2]) @@ ("status_id" :> status[2])
    @@ AnyValue(AccountBaseKeys)
    @@ (IF action[1] = "password_change"
        THEN AnyValue({"password_change.enforced", "password_change.strength"})
        ELSE IF action[1] \in {"lock", "unlock"}
        THEN AnyValue({"account_status.reason", "account_status.duration"})
        ELSE <<>>)

\* fs_activity_uploader.py line 23
fs_actions == {"create", "modify", "delete", "rename", "chmod", "read", "link"}

\* FileSystemActivityGenerator.generate_random_event, lines 38-63: the raw
\* event; class_uid is written by map_to_ocsf (lines 65-131) only
FsEvent(action) ==
    ("action" :> action)
    @@ AnyValue({"time", "user", "pid", "path", "size", "permissions", "owner", "group"})
    @@ (IF action = "rename" THEN AnyValue({"new_path"})
        ELSE IF action = "link" THEN AnyValue({"link_path"})
        ELSE <<>>)


(***************************************************************************)
(* data/composer/ocsf_composer.py: generators_config, generate_batch and   *)
(* the bulk action upload_events builds for an event.                      *)
(***************************************************************************)
\* main lines 121-147: config['class'] and the parts of config['index'],
\* "ocsf-1.1.0-<uid>-<class>"
generators_config ==
    ("HTTPActivityGenerator" :> [uid |-> <<"4", "0", "0", "2">>, class |-> "http_activity"])
    @@ ("DNSActivityGenerator" :> [uid |-> <<"4", "0", "0", "3">>, class |-> "dns_activity"])
    @@ ("AuthenticationGenerator" :>
            [uid |-> <<"3", "0", "0", "2">>, class |-> "authentication"])
    @@ ("AccountChangeGenerator" :>
            [uid |-> <<"3", "0", "0", "1">>, class |-> "account_change"])
    @@ ("FileSystemActivityGenerator" :>
            [uid |-> <<"1", "0", "0", "1">>, class |-> "fs_activity"])

GeneratorClasses == DOMAIN generators_config

\* line 163: index_name = f"{config['index']}-{current_date}-000000"
ComposerIndexName(class) ==
    [prefix |-> "ocsf-1.1.0", uid |-> generators_config[class].uid,
     class |-> generators_config[class].class, date |-> "current_date",
     serial |-> "000000"]

\* the <N> of an index name ocsf-1.1.0-<N>-<class>-<date>-000000
IndexClassUid(index_name) == DecimalValue(index_name.uid)

InitGen ==
    /\ gpc = "ready"
    /\ generator \in GeneratorClasses
    /\ gevent = <<>>
    /\ gaction = <<>>
    /\ first_keys = {}

\* generate_batch line 68 and upload_events lines 78-84: the generator returns
\* an event and the composer wraps it in a bulk action for the config's index
ReturnEvent(ev) ==
    /\ gevent' = ev
    /\ gaction' = [_index |-> ComposerIndexName(generator), _source |-> ev]
    /\ first_keys' = IF first_keys = {} THEN DOMAIN ev ELSE first_keys
    /\ gpc' = "generated"
    /\ UNCHANGED generator
    /\ UNCHANGED notGen

GenerateHttp ==
    /\ gpc \in {"ready", "generated"} /\ generator = "HTTPActivityGenerator"
    /\ \E method \in http_methods, status \in http_status_codes :
           ReturnEvent(HttpEvent(method, status))

GenerateAuth ==
    /\ gpc \in {"ready", "generated"} /\ generator = "AuthenticationGenerator"
    /\ \E auth_type \in auth_types, status_info \in auth_statuses :
           ReturnEvent(AuthEvent(auth_type, status_info))

GenerateDns ==
    /\ gpc \in {"ready", "generated"} /\ generator = "DNSActivityGenerator"
    /\ \E query_type \in dns_query_types, status \in dns_statuses,
          response_count \in MinAnswers..MaxAnswers :
           ReturnEvent(DnsEvent(query_type, status, response_count))

GenerateAccount ==
    /\ gpc \in {"ready", "generated"} /\ generator = "AccountChangeGenerator"
    /\ \E action \in account_actions, status \in account_status_codes :
           ReturnEvent(AccountEvent(action, status))

GenerateFs ==
    /\ gpc \in {"ready", "generated"} /\ generator = "FileSystemActivityGenerator"
    /\ \E action \in fs_actions : ReturnEvent(FsEvent(action))

GenInit == InitGen /\ IdleUploader /\ IdleFields /\ IdleNas /\ IdleSample /\ IdleCli /\ IdleMain /\ IdleFo /\ IdleStatus /\ IdleOs /\ IdleCt /\ IdleIng /\ IdleSu /\ IdleNl

GenNext ==
    \/ GenerateHttp
    \/ GenerateAuth
    \/ GenerateDns
    \/ GenerateAccount
    \/ GenerateFs

GenSpec == GenInit /\ [][GenNext]_vars

\* the generators C11 names
FixedKeyClasses ==
    {"HTTPActivityGenerator", "AuthenticationGenerator", "DNSActivityGenerator"}

\* the keys the code adds after the event literal
OptionalKeys ==
    {"http_request.content_type", "error.code", "error.message", "error.details",
     "message", "authentication.failure_code", "authentication.mfa.type",
     "authentication.mfa.success", "authentication.mfa.attempt", "dns_query.answers",
     "dns_query.answers[].type", "dns_query.answers[].type_id",
     "dns_query.answers[].data", "dns_query.answers[].ttl"}

\* all of the keys are in the event, or none is, as the condition says
KeysIff(keys, condition) ==
    IF condition THEN keys \subseteq DOMAIN gevent ELSE keys \cap DOMAIN gevent = {}

\* C11 as stated: every event a generator returns has the keys of the first
\* event it returned.
C11_FixedKeySet ==
    gpc = "generated" /\ generator \in FixedKeyClasses => DOMAIN gevent = first_keys

\* C11 amended: apart from the keys added after the event literal, every event
\* of a generator has the same keys; the HTTP event has
\* http_request.content_type iff the method is POST, PUT or PATCH and the error
\* keys iff the status code is at least 400; the authentication event has
\* message and authentication.failure_code iff the status is not Success and
\* the authentication.mfa keys iff the type is Multi-Factor; the DNS event has
\* dns_query.answers (one to three answers) iff the status is NOERROR.
C11_FixedKeysPlusConditional ==
    gpc = "generated" /\ generator \in FixedKeyClasses =>
        /\ DOMAIN gevent \ OptionalKeys = first_keys \ OptionalKeys
        /\ generator = "HTTPActivityGenerator" =>
             /\ DOMAIN gevent \cap OptionalKeys \subseteq
                    {"http_request.content_type", "error.code", "error.message",
                     "error.details"}
             /\ KeysIff({"http_request.content_type"},
                        gevent["http_request.method"] \in {"POST", "PUT", "PATCH"})
             /\ KeysIff({"error.code", "error.message", "error.details"},
                        gevent["http_response.status_code"] >= 400)
        /\ generator = "AuthenticationGenerator" =>
             /\ DOMAIN gevent \cap OptionalKeys \subseteq
                    {"message", "authentication.failure_code", "authentication.mfa.type",
                     "authentication.mfa.success", "authentication.mfa.attempt"}
             /\ KeysIff({"message", "authentication.failure_code"},
                        gevent["status"] # "Success")
             /\ KeysIff({"authentication.mfa.type", "authentication.mfa.success",
                         "authentication.mfa.attempt"},
                        gevent["authentication.type"] = "Multi-Factor")
        /\ generator = "DNSActivityGenerator" =>
             /\ DOMAIN gevent \cap OptionalKeys \subseteq
                    {"dns_query.answers", "dns_query.answers[].type",
                     "dns_query.answers[].type_id", "dns_query.answers[].data",
                     "dns_query.answers[].ttl"}
             /\ KeysIff({"dns_query.answers", "dns_query.answers[].type",
                         "dns_query.answers[].type_id", "dns_query.answers[].data",
                         "dns_query.answers[].ttl"},
                        gevent["status"] = "NOERROR")
             /\ "dns_query.answers" \in DOMAIN gevent =>
                    gevent["dns_query.answers"] \in 1..3

\* C11 witness: the HTTP generator has returned a failed POST, with the error
\* keys and http_request.content_type, after a first event that had neither.
C11_Witness ==
    /\ gpc = "generated" /\ generator = "HTTPActivityGenerator"
    /\ gevent["http_request.method"] = "POST"
    /\ gevent["http_response.status_code"] = 404
    /\ {"error.code", "http_request.content_type"} \subseteq DOMAIN gevent
    /\ first_keys \cap OptionalKeys = {}

\* C12: every bulk action the composer builds for an index named
\* ocsf-1.1.0-<N>-<class>-<date>-000000 holds a document with class_uid = N.
C12_ClassUidMatchesIndex ==
    gpc = "generated" =>
        /\ "class_uid" \in DOMAIN gaction._source
        /\ gaction._source["class_uid"] = IndexClassUid(gaction._index)


(***************************************************************************)
(* data/network-activity/network_activity_script.py lines 39-75 and        *)
(* data/network-activity/main.py lines 22-58: create_opensearch_client.    *)
(***************************************************************************)
\* largest retry_count argument
MaxRetryCount == 4

\* how an attempt can end: "ok"; OpenSearch(...) raised; client.info() raised;
\* client.info() returned and reading info['version'] for the log line raised
AttemptFailures == {"construct", "info", "log"}

\* whether the attempt got as far as calling client.info()
CallsInfo(outcome) == outcome # "construct"

InitCli ==
    /\ cpc = "loop"
    /\ retry_count \in 1..MaxRetryCount
    /\ file_only_mode \in BOOLEAN
    /\ attempt = 0
    /\ outcomes = <<>>
    /\ info_calls = 0
    /\ sleeps = <<>>
    /\ client_result = "unset"
    /\ raised_attempt = -1

\* lines 41-43: file-only mode returns None before anything else
ClientFileOnly ==
    /\ cpc = "loop" /\ file_only_mode
    /\ client_result' = "None"
    /\ cpc' = "returned"
    /\ UNCHANGED <<retry_count, file_only_mode, attempt, outcomes, info_calls, sleeps,
                   raised_attempt>>
    /\ UNCHANGED notCli

\* lines 59-65: the attempt connects and the client is returned
ClientAttemptOk ==
    /\ cpc = "loop" /\ ~file_only_mode /\ attempt < retry_count
    /\ outcomes' = Append(outcomes, "ok")
    /\ info_calls' = info_calls + 1
    /\ client_result' = "client"
    /\ cpc' = "returned"
    /\ UNCHANGED <<retry_count, file_only_mode, attempt, sleeps, raised_attempt>>
    /\ UNCHANGED notCli

\* a backoff that starts at two seconds
WaitTimeFromTwo(k) == 2 ^ (k + 1)

\* line 68: wait_time = 2 ** attempt
WaitTime(k) == 2 ^ k

\* lines 66-70: the attempt raised and is not the last: sleep, then try again
ClientAttemptFailsRetry(outcome) ==
    /\ cpc = "loop" /\ ~file_only_mode /\ attempt < retry_count - 1
    /\ outcomes' = Append(outcomes, outcome)
    /\ info_calls' = info_calls + (IF CallsInfo(outcome) THEN 1 ELSE 0)
    /\ sleeps' = Append(sleeps, WaitTime(attempt))
    /\ attempt' = attempt + 1
    /\ UNCHANGED <<cpc, retry_count, file_only_mode, client_result, raised_attempt>>
    /\ UNCHANGED notCli

\* lines 71-75: the last attempt raised: its exception is raised again
ClientAttemptFailsLast(outcome) ==
    /\ cpc = "loop" /\ ~file_only_mode /\ attempt = retry_count - 1
    /\ outcomes' = Append(outcomes, outcome)
    /\ info_calls' = info_calls + (IF CallsInfo(outcome) THEN 1 ELSE 0)
    /\ raised_attempt' = attempt
    /\ cpc' = "raised"
    /\ UNCHANGED <<retry_count, file_only_mode, attempt, sleeps, client_result>>
    /\ UNCHANGED notCli

CliInit == InitCli /\ IdleUploader /\ IdleFields /\ IdleNas /\ IdleSample /\ IdleGen /\ IdleMain /\ IdleFo /\ IdleStatus /\ IdleOs /\ IdleCt /\ IdleIng /\ IdleSu /\ IdleNl

CliNext ==
    \/ ClientFileOnly
    \/ ClientAttemptOk
    \/ \E outcome \in AttemptFailures : ClientAttemptFailsRetry(outcome)
    \/ \E outcome \in AttemptFailures : ClientAttemptFailsLast(outcome)

CliSpec == CliInit /\ [][CliNext]_vars

\* the attempts so far that failed
FailedAttempts == {j \in 1..Len(outcomes) : outcomes[j] # "ok"}

\* C13: with file_only_mode false, client.info() is called at most retry_count
\* times; the k-th failed attempt (k from 0) is followed by a sleep of 2^k
\* seconds unless it is the last attempt; the client is returned by the first
\* attempt that succeeds, which is the last attempt made; when all retry_count
\* attempts fail the exception of the last one is raised.
C13_BoundedExponentialRetry ==
    cpc # "idle" /\ ~file_only_mode =>
        /\ info_calls <= Len(outcomes) /\ Len(outcomes) <= retry_count
        /\ \A j \in 1..Len(outcomes) : outcomes[j] = "ok" => j = Len(outcomes)
        /\ Len(sleeps) = Cardinality(FailedAttempts \ {retry_count})
        /\ \A k \in 0..(Len(sleeps) - 1) : sleeps[k + 1] = 2 ^ k
        /\ cpc = "returned" <=> (outcomes # <<>> /\ outcomes[Len(outcomes)] = "ok")
        /\ cpc = "returned" => client_result = "client"
        /\ cpc = "raised" <=> Cardinality(FailedAttempts) = retry_count
        /\ cpc = "raised" => raised_attempt = retry_count - 1

\* C13 witness: three attempts failed, with sleeps of 1, 2 and 4 seconds, and
\* the fourth returned the client.
C13_Witness ==
    /\ cpc = "returned" /\ client_result = "client" /\ ~file_only_mode
    /\ retry_count = 4 /\ Len(outcomes) = 4
    /\ sleeps = <<1, 2, 4>>


(***************************************************************************)
(* data/anubhav.py: main lines 374-418 with get_credentials,               *)
(* create_secure_client and validate_input_file.                           *)
(***************************************************************************)
\* largest --max-size value, in MB; most bulk calls of one upload
MaxSizeMb == 1
MaxMainCalls == 2

\* line 367: bytes in a megabyte
MegaByte == 1024 * 1024

\* a size test that lets every file pass
FileTooBigNever(size, limit_mb) == FALSE

\* lines 367-368: file_size_mb = getsize / (1024 * 1024); file_size_mb > max_size_mb
FileTooBig(size, limit_mb) == size > limit_mb * MegaByte

\* lines 361-372
validate_input_file(exists, size, limit_mb) == exists /\ ~FileTooBig(size, limit_mb)

\* line 29: not username or not password
CredentialsMissing(username, password) ==
    username \in {"unset", ""} \/ password \in {"unset", ""}

InitMain ==
    /\ mpc = "validate"
    /\ file_exists \in BOOLEAN
    /\ max_size \in 1..MaxSizeMb
    /\ file_bytes \in {0, max_size * MegaByte, max_size * MegaByte + 1}
    /\ env_user \in {"unset", "", "admin"}
    /\ env_password \in {"unset", "", "secret"}
    /\ info_ok \in BOOLEAN
    /\ read_ok \in BOOLEAN
    /\ main_bulk_calls = 0
    /\ main_status = -1

\* sys.exit(1)
MainExitOne ==
    /\ main_status' = 1
    /\ mpc' = "exited"
    /\ UNCHANGED <<file_exists, file_bytes, max_size, env_user, env_password, info_ok,
                   read_ok, main_bulk_calls>>
    /\ UNCHANGED notMain

\* the next step of main
MainGoesOn(next) ==
    /\ mpc' = next
    /\ UNCHANGED <<file_exists, file_bytes, max_size, env_user, env_password, info_ok,
                   read_ok, main_bulk_calls, main_status>>
    /\ UNCHANGED notMain

\* lines 385-387
MainValidateFails ==
    /\ mpc = "validate" /\ ~validate_input_file(file_exists, file_bytes, max_size)
    /\ MainExitOne

MainValidateOk ==
    /\ mpc = "validate" /\ validate_input_file(file_exists, file_bytes, max_size)
    /\ MainGoesOn("credentials")

\* lines 390, 338 and 26-31
MainCredentialsMissing ==
    /\ mpc = "credentials" /\ CredentialsMissing(env_user, env_password)
    /\ MainExitOne

\* lines 33 and 340-359
MainCredentialsOk ==
    /\ mpc = "credentials" /\ ~CredentialsMissing(env_user, env_password)
    /\ MainGoesOn("connect")

\* lines 393-399
MainConnectFails ==
    /\ mpc = "connect" /\ ~info_ok
    /\ MainExitOne

MainConnectOk ==
    /\ mpc = "connect" /\ info_ok
    /\ MainGoesOn("read")

\* lines 402-408
MainReadFails ==
    /\ mpc = "read" /\ ~read_ok
    /\ MainExitOne

MainReadOk ==
    /\ mpc = "read" /\ read_ok
    /\ MainGoesOn("upload")

\* lines 411-418: upload_to_opensearch_ocsf makes its bulk calls, then main exits
\* with 1 (counters above zero, or an exception) or returns
MainUpload ==
    /\ mpc = "upload"
    /\ main_bulk_calls' \in 0..MaxMainCalls
    /\ main_status' \in {0, 1}
    /\ mpc' = "exited"
    /\ UNCHANGED <<file_exists, file_bytes, max_size, env_user, env_password, info_ok,
                   read_ok>>
    /\ UNCHANGED notMain

MainInit == InitMain /\ IdleUploader /\ IdleFields /\ IdleNas /\ IdleSample /\ IdleGen /\ IdleCli /\ IdleFo /\ IdleStatus /\ IdleOs /\ IdleCt /\ IdleIng /\ IdleSu /\ IdleNl

MainNext ==
    \/ MainValidateFails
    \/ MainValidateOk
    \/ MainCredentialsMissing
    \/ MainCredentialsOk
    \/ MainConnectFails
    \/ MainConnectOk
    \/ MainReadFails
    \/ MainReadOk
    \/ MainUpload

MainSpec == MainInit /\ [][MainNext]_vars

\* a run of main always takes its next step
MainFairSpec == MainSpec /\ WF_vars(MainNext)

\* the conditions C14 names
MainMustFail ==
    \/ ~file_exists
    \/ file_bytes > max_size * 1024 * 1024
    \/ env_user = "unset"
    \/ env_password = "unset"
    \/ ~info_ok

\* C14: if the input file does not exist or exceeds the size limit, or
\* OPENSEARCH_USER or OPENSEARCH_PASSWORD is unset, or the connection check
\* fails, no bulk call is ever made and the process exits, with status 1.
C14_FailsBeforeAnyBulkCall ==
    /\ [](MainMustFail =>
            /\ main_bulk_calls = 0
            /\ mpc # "upload"
            /\ mpc = "exited" => main_status = 1)
    /\ (mpc = "validate" /\ MainMustFail) ~> (mpc = "exited")

\* C14 witness: a run with a good file and good credentials has exited with
\* status 1 at the connection check, without a bulk call.
C14_Witness ==
    /\ mpc = "exited" /\ main_status = 1 /\ main_bulk_calls = 0
    /\ file_exists /\ file_bytes = max_size * 1024 * 1024
    /\ env_user = "admin" /\ env_password = "secret"
    /\ ~info_ok


(***************************************************************************)
(* data/network-activity/network_activity_script.py: main lines 436-503    *)
(* and process_and_upload_batch lines 195-243 in all their modes.          *)
(***************************************************************************)
\* batches of one run, normalized documents of one batch
MaxBatches == 2
MaxBatchDocs == 2

InitFo ==
    /\ opc = "main"
    /\ flag_file_only \in BOOLEAN
    /\ args_file_only = flag_file_only
    /\ output_dir \in BOOLEAN
    /\ client = "None"
    /\ os_requests = 0
    /\ remaining \in 1..MaxBatches
    /\ docs_seen = 0
    /\ files_written = 0
    /\ files_failed = 0
    /\ total_success = 0
    /\ total_error = 0

\* main lines 437-439 with --file-only: create_opensearch_client is not called
FoSkipClient ==
    /\ opc = "main" /\ args_file_only
    /\ opc' = "batch"
    /\ UNCHANGED <<flag_file_only, args_file_only, output_dir, client, os_requests,
                   remaining, docs_seen, files_written, files_failed, total_success,
                   total_error>>
    /\ UNCHANGED notFo

\* main lines 439-447: the client is created (client.info()) and the index is
\* there or was created
FoConnect ==
    /\ opc = "main" /\ ~args_file_only
    /\ client' = "client"
    /\ os_requests' = os_requests + 2
    /\ opc' = "batch"
    /\ UNCHANGED <<flag_file_only, args_file_only, output_dir, remaining, docs_seen,
                   files_written, files_failed, total_success, total_error>>
    /\ UNCHANGED notFo

\* main lines 447-460: the connection or the index check failed; with an output
\* directory main goes on in file-only mode, without one it returns
FoConnectFails ==
    /\ opc = "main" /\ ~args_file_only
    /\ os_requests' = os_requests + 1
    /\ client' = "None"
    /\ IF output_dir
       THEN args_file_only' = TRUE /\ opc' = "batch"
       ELSE args_file_only' = args_file_only /\ opc' = "done"
    /\ UNCHANGED <<flag_file_only, output_dir, remaining, docs_seen, files_written,
                   files_failed, total_success, total_error>>
    /\ UNCHANGED notFo

\* process_and_upload_batch lines 204-210: file-only mode; saved is the set of
\* documents save_to_file wrote
FoBatchFilesOnly(n, saved) ==
    /\ opc = "batch" /\ remaining > 0
    /\ client = "None" /\ output_dir
    /\ files_written' = files_written + Cardinality(saved)
    /\ files_failed' = files_failed + (n - Cardinality(saved))
    /\ total_success' = total_success + Cardinality(saved)
    /\ total_error' = total_error + (n - Cardinality(saved))
    /\ docs_seen' = docs_seen + n
    /\ remaining' = remaining - 1
    /\ UNCHANGED <<opc, flag_file_only, args_file_only, output_dir, client, os_requests>>
    /\ UNCHANGED notFo

\* lines 212-237 with a client: the documents are saved when there is an output
\* directory, and upload_bulk's counts are returned
FoBatchUpload(n, saved, success) ==
    /\ opc = "batch" /\ remaining > 0
    /\ client = "client"
    /\ files_written' = files_written + (IF output_dir THEN Cardinality(saved) ELSE 0)
    /\ files_failed' = files_failed + (IF output_dir THEN n - Cardinality(saved) ELSE 0)
    /\ os_requests' = os_requests + 1
    /\ total_success' = total_success + success
    /\ total_error' = total_error + (n - success)
    /\ docs_seen' = docs_seen + n
    /\ remaining' = remaining - 1
    /\ UNCHANGED <<opc, flag_file_only, args_file_only, output_dir, client>>
    /\ UNCHANGED notFo

\* lines 212-243 with neither client nor output directory: bulk_data is built,
\* neither branch of lines 234-241 is taken, and (0, 0) is returned
FoBatchDropped(n) ==
    /\ opc = "batch" /\ remaining > 0
    /\ client = "None" /\ ~output_dir
    /\ docs_seen' = docs_seen + n
    /\ remaining' = remaining - 1
    /\ UNCHANGED <<opc, flag_file_only, args_file_only, output_dir, client, os_requests,
                   files_written, files_failed, total_success, total_error>>
    /\ UNCHANGED notFo

\* main lines 492 and 508-514: no batch remains
FoDone ==
    /\ opc = "batch" /\ remaining = 0
    /\ opc' = "done"
    /\ UNCHANGED <<flag_file_only, args_file_only, output_dir, client, os_requests,
                   remaining, docs_seen, files_written, files_failed, total_success,
                   total_error>>
    /\ UNCHANGED notFo

FoInit == InitFo /\ IdleUploader /\ IdleFields /\ IdleNas /\ IdleSample /\ IdleGen /\ IdleCli /\ IdleMain /\ IdleStatus /\ IdleOs /\ IdleCt /\ IdleIng /\ IdleSu /\ IdleNl

FoNext ==
    \/ FoSkipClient
    \/ FoConnect
    \/ FoConnectFails
    \/ \E n \in 1..MaxBatchDocs : \E saved \in SUBSET (1..n) : FoBatchFilesOnly(n, saved)
    \/ \E n \in 1..MaxBatchDocs : \E saved \in SUBSET (1..n) : \E success \in 0..n :
           FoBatchUpload(n, saved, success)
    \/ \E n \in 1..MaxBatchDocs : FoBatchDropped(n)
    \/ FoDone

FoSpec == FoInit /\ [][FoNext]_vars

\* C15: run with --file-only, the script creates no client and sends no request
\* to OpenSearch, and every normalized document is written to the output
\* directory and counted as a success, or could not be written and is counted
\* as an error.
C15_FileOnlyWritesAndCounts ==
    flag_file_only =>
        /\ client = "None"
        /\ os_requests = 0
        /\ files_written + files_failed = docs_seen
        /\ total_success = files_written
        /\ total_error = files_failed

(***************************************************************************)
(* The failure streak and the backoff sleeps of upload_to_opensearch_ocsf. *)
(***************************************************************************)
\* every attempt of the run so far, in call order, across the batches
AllAttempts == Concat(log)

\* the length of the run of raised calls that ends with attempt i of a history
Streak(h, i) ==
    LET stops == {j \in 1..i : h[j].out # "raise"}
    IN  i - (IF stops = {} THEN 0 ELSE CHOOSE j \in stops : \A k \in stops : k <= j)

\* the completed attempts of a history
Completed(h) == SelectSeq(h, LAMBDA a : a.out # "pending")

\* the backoff sleeps of a history since its last call that returned
SleepsInARow(h) ==
    LET oks  == {j \in 1..Len(h) : h[j].out = "ok"}
        from == IF oks = {} THEN 0 ELSE CHOOSE j \in oks : \A k \in oks : k <= j
    IN  Cardinality({j \in (from + 1)..Len(h) : h[j].pre > 0})

\* C16: consecutive_failures is the number of bulk calls that raised since the
\* last one that returned (or since the start), across batches; a backoff
\* sleep precedes an attempt exactly when that number is at least 5, the n-th
\* sleep in a row lasts 2^(n-1) seconds, and backoff_time is 1 after a call
\* that returned and doubles after each sleep
C16_StreakAndBackoff ==
    (script = "anubhav" /\ pc \notin {"start", "crashed"}) =>
        LET h == AllAttempts
        IN  /\ consecutive_failures = Streak(Completed(h), Len(Completed(h)))
            /\ \A i \in 1..Len(h) :
                   LET before == Streak(h, i - 1)
                   IN  h[i].pre = IF before >= 5 THEN 2 ^ (before - 5) ELSE 0
            /\ backoff_time = 2 ^ SleepsInARow(h)
            /\ (h # <<>> /\ h[Len(h)].out = "ok") => backoff_time = 1

\* three backoff sleeps in a row, the streak having passed from one batch to
\* the next, and a later call that returned
C16_Witness ==
    /\ script = "anubhav" /\ pc = "batch"
    /\ \E i \in 1..Len(AllAttempts) : AllAttempts[i].pre = 4
    /\ AllAttempts[Len(AllAttempts)].out = "ok"
    /\ backoff_time = 1 /\ consecutive_failures = 0

(***************************************************************************)
(* The counters upload_to_opensearch_ocsf returns.                         *)
(***************************************************************************)
\* every attempt of history entry b raised and no retry is left
AllRaised(b) == Len(log[b]) = max_retries /\ \A j \in 1..Len(log[b]) : log[b][j].out = "raise"

\* the documents of the batches whose attempts all raised
SizeOfAllRaised ==
    SumSeq([b \in 1..Len(log) |-> IF AllRaised(b) THEN Len(submitted[b].docs) ELSE 0])

\* the documents of the batches one of whose calls returned
SizeOfReturned ==
    SumSeq([b \in 1..Len(log) |->
               IF \E j \in 1..Len(log[b]) : log[b][j].out = "ok"
               THEN Len(submitted[b].docs) ELSE 0])

\* C17: when upload_to_opensearch_ocsf returns, failed_lines is the number of
\* non-blank lines that did not parse and successful + failed is the number of
\* lines that did parse; a bulk call that returns adds the batch's size to
\* successful + failed, a batch whose attempts all raised adds its size to
\* failed with its last raise and no other step adds anything
C17_ReturnedCounters ==
    /\ [](script = "anubhav" /\ Returned =>
            /\ failed_lines =
                   Cardinality({n \in 1..Len(lines) : lines[n] # "blank" /\ ~Parses(lines[n])})
            /\ successful + failed = Cardinality({n \in 1..Len(lines) : Parses(lines[n])})
            /\ SizeOfAllRaised <= failed
            /\ successful <= SizeOfReturned
            /\ successful + failed = SizeOfAllRaised + SizeOfReturned)
    /\ [][script = "anubhav" /\ pc # "start" =>
            LET size  == Len(CurBatch.docs)
                added == (successful' - successful) + (failed' - failed)
            IN  CASE pc = "bulk" /\ pc' = "batch"   -> added = size
                  [] pc = "bulk" /\ pc' = "attempt" ->
                         /\ successful' = successful
                         /\ failed' - failed = IF Len(log[Len(log)]) = max_retries THEN size ELSE 0
                  [] OTHER -> successful' = successful /\ failed' = failed]_vars

\* the run has returned with a bad line, a blank line and one parsed line whose
\* batch was given up after its attempts all raised
C17_Witness ==
    /\ script = "anubhav" /\ Returned
    /\ \E n \in 1..Len(lines) : lines[n] = "bad"
    /\ \E n \in 1..Len(lines) : lines[n] = "blank"
    /\ failed_lines = 1
    /\ \E b \in 1..Len(log) : AllRaised(b)
    /\ successful = 0 /\ failed = 1

(***************************************************************************)
(* The batches of upload_to_opensearch_ocsf.                               *)
(***************************************************************************)
\* the places (batch, position) of the run's bulk actions
Places == {p \in (1..Len(batches)) \X (1..Len(lines)) : p[2] <= Len(batches[p[1]].docs)}

\* the document of the action at a place
DocAt(p) == batches[p[1]].docs[p[2]]

\* C18: the batches partition the parsed events: a batch holds between 1 and
\* batch_size actions, all for the index name derived from the event's date;
\* the events of an index keep their input order across and within its
\* batches; every parsed event is in exactly one batch, once
C18_BatchesPartitionEvents ==
    (script = "anubhav" /\ pc \notin {"start", "crashed"}) =>
        /\ \A b \in 1..Len(batches) :
               /\ Len(batches[b].docs) >= 1
               /\ Len(batches[b].docs) <= batch_size
               /\ \A j \in 1..Len(batches[b].docs) :
                      /\ Parses(lines[batches[b].docs[j]])
                      /\ batches[b].index = IndexName(lines[batches[b].docs[j]])
        /\ \A p, q \in Places :
               (/\ batches[p[1]].index = batches[q[1]].index
                /\ (p[1] < q[1] \/ (p[1] = q[1] /\ p[2] < q[2])))
                   => DocAt(p) < DocAt(q)
        /\ \A n \in 1..Len(lines) :
               Parses(lines[n]) => Cardinality({p \in Places : DocAt(p) = n}) = 1

\* three parsed events of two dates, interleaved, in batches of two: the first
\* date has a full batch, the second a batch of one between them in input order
C18_Witness ==
    /\ script = "anubhav" /\ pc = "batch"
    /\ lines = <<"d1", "d2", "d1">>
    /\ batch_size = 2
    /\ Len(batches) = 2
    /\ batches[1].docs = <<1, 3>>
    /\ batches[2].docs = <<2>>

(***************************************************************************)
(* Status and severity of a network activity event.                        *)
(***************************************************************************)
\* the pattern's status group is three digits (line 44)
MinStatusCode == 0
MaxStatusCode == 999

\* lines 162-168: status and status_id
StatusOf(status_code) ==
    IF 200 <= status_code /\ status_code < 400
    THEN [status |-> "Success", status_id |-> 1]
    ELSE [status |-> "Failure", status_id |-> 2]

\* lines 170-179: severity and severity_id
SeverityOf(status_code) ==
    IF status_code >= 500 THEN [severity |-> "Error", severity_id |-> 3]
    ELSE IF status_code >= 400 THEN [severity |-> "Warning", severity_id |-> 2]
    ELSE [severity |-> "Informational", severity_id |-> 1]

\* lines 119-122: status_code of a line the pattern matched
InitStatus ==
    /\ tpc = "code"
    /\ code \in MinStatusCode..MaxStatusCode
    /\ labels = [status_id |-> 0, status |-> "", severity_id |-> 0, severity |-> ""]

\* lines 162-198: the event's status and severity fields
MapStatus ==
    /\ tpc = "code"
    /\ labels' = [status_id   |-> StatusOf(code).status_id,
                   status      |-> StatusOf(code).status,
                   severity_id |-> SeverityOf(code).severity_id,
                   severity    |-> SeverityOf(code).severity]
    /\ tpc' = "mapped"
    /\ UNCHANGED code
    /\ UNCHANGED notStatus

StatusInit == InitStatus /\ IdleUploader /\ IdleFields /\ IdleNas /\ IdleSample /\ IdleGen /\ IdleCli /\ IdleMain /\ IdleFo /\ IdleOs /\ IdleCt /\ IdleIng /\ IdleSu /\ IdleNl

StatusNext == MapStatus

StatusSpec == StatusInit /\ [][StatusNext]_vars

\* C19: for a three-digit status code c, status_id is 1 ('Success') iff
\* 200 <= c < 400 and 2 ('Failure') otherwise; severity_id is 3 if c >= 500,
\* 2 if 400 <= c < 500 and 1 otherwise; hence the status is 'Failure' exactly
\* when the severity is above Informational
C19_StatusAndSeverity ==
    tpc = "mapped" =>
        /\ labels.status_id = 1 <=> (200 <= code /\ code < 400)
        /\ labels.status_id = 1 => labels.status = "Success"
        /\ labels.status_id # 1 => (labels.status_id = 2 /\ labels.status = "Failure")
        /\ labels.severity_id =
               IF code >= 500 THEN 3 ELSE IF code >= 400 THEN 2 ELSE 1
        /\ labels.status = "Failure" <=> labels.severity_id > 1

\* a code of an informational response has been mapped
C19_Witness ==
    /\ tpc = "mapped"
    /\ code = 101
    /\ labels.status = "Failure"
    /\ labels.severity = "Informational"

(***************************************************************************)
(* main of os_init_localhost.py: the installers, ISM_INIT and alias_init.  *)
(***************************************************************************)
MaxTemplates == 2

\* what extract_templates can do (lines 176-213): return True, return False, or
\* let the exception of os.makedirs (line 179, outside the try) escape
ExtractOutcomes == {"True", "False", "raise"}

\* what the walk can do with one _body.json file (lines 239-259, 359-385):
\* create the template, count an error, or let the OSError of open() escape
\* (the handler at lines 260 and 386 catches UnicodeDecodeError only)
FileOutcomes == {"created", "error", "raise"}

\* lines 339 and 435: return success_count > 0
InstallResult(count) == count > 0

\* line 446: if component_result or index_result
TemplatesInstalled(c, i) == c \/ i

InitOs ==
    /\ ipc = "start"
    /\ component_files \in 0..MaxTemplates
    /\ index_files \in 0..MaxTemplates
    /\ actor_template_exists \in BOOLEAN
    /\ actor_template_exists => component_files > 0
    /\ todo = 0
    /\ success_count = 0
    /\ error_count = 0
    /\ component_result = FALSE
    /\ index_result = FALSE
    /\ raised_in = ""
    /\ ism_raised = FALSE
    /\ calls = <<>>

\* lines 442 and 215-223: install_component_templates is called and extracts
ComponentExtract(outcome) ==
    /\ ipc = "start"
    /\ calls' = Append(calls, "install_component_templates")
    /\ success_count' = 0
    /\ error_count' = 0
    /\ CASE outcome = "True"  ->
                /\ ipc' = "component_files"
                /\ todo' = component_files
                /\ UNCHANGED <<component_result, raised_in>>
         [] outcome = "False" ->
                /\ ipc' = "index"
                /\ component_result' = FALSE
                /\ UNCHANGED <<todo, raised_in>>
         [] outcome = "raise" ->
                /\ ipc' = "crashed"
                /\ raised_in' = "install_component_templates"
                /\ UNCHANGED <<todo, component_result>>
    /\ UNCHANGED <<component_files, index_files, actor_template_exists,
                   index_result, ism_raised>>
    /\ UNCHANGED notOs

\* lines 229-276: the next component template file
ComponentFile(outcome) ==
    /\ ipc = "component_files" /\ todo > 0
    /\ todo' = todo - 1
    /\ CASE outcome = "created" ->
                /\ success_count' = success_count + 1
                /\ UNCHANGED <<error_count, ipc, raised_in>>
         [] outcome = "error"   ->
                /\ error_count' = error_count + 1
                /\ UNCHANGED <<success_count, ipc, raised_in>>
         [] outcome = "raise"   ->
                /\ ipc' = "crashed"
                /\ raised_in' = "install_component_templates"
                /\ UNCHANGED <<success_count, error_count>>
    /\ UNCHANGED <<component_files, index_files, actor_template_exists,
                   component_result, index_result, ism_raised, calls>>
    /\ UNCHANGED notOs

\* lines 278-339: the actor template if no file was it, the answers template,
\* and the return
ComponentReturn(actor_ok, answers_ok) ==
    /\ ipc = "component_files" /\ todo = 0
    /\ actor_template_exists => actor_ok
    /\ LET made == (IF ~actor_template_exists /\ actor_ok THEN 1 ELSE 0)
                   + (IF answers_ok THEN 1 ELSE 0)
           errs == (IF ~actor_template_exists /\ ~actor_ok THEN 1 ELSE 0)
                   + (IF answers_ok THEN 0 ELSE 1)
       IN  /\ success_count' = success_count + made
           /\ error_count' = error_count + errs
           /\ component_result' = InstallResult(success_count + made)
    /\ ipc' = "index"
    /\ UNCHANGED <<component_files, index_files, actor_template_exists, todo,
                   index_result, raised_in, ism_raised, calls>>
    /\ UNCHANGED notOs

\* lines 443 and 341-350: install_index_templates is called and extracts
IndexExtract(outcome) ==
    /\ ipc = "index"
    /\ calls' = Append(calls, "install_index_templates")
    /\ success_count' = 0
    /\ error_count' = 0
    /\ CASE outcome = "True"  ->
                /\ ipc' = "index_files"
                /\ todo' = index_files
                /\ UNCHANGED <<index_result, raised_in>>
         [] outcome = "False" ->
                /\ ipc' = "init"
                /\ index_result' = FALSE
                /\ UNCHANGED <<todo, raised_in>>
         [] outcome = "raise" ->
                /\ ipc' = "crashed"
                /\ raised_in' = "install_index_templates"
                /\ UNCHANGED <<todo, index_result>>
    /\ UNCHANGED <<component_files, index_files, actor_template_exists,
                   component_result, ism_raised>>
    /\ UNCHANGED notOs

\* lines 353-390: the next index template file
IndexFile(outcome) ==
    /\ ipc = "index_files" /\ todo > 0
    /\ todo' = todo - 1
    /\ CASE outcome = "created" ->
                /\ success_count' = success_count + 1
                /\ UNCHANGED <<error_count, ipc, raised_in>>
         [] outcome = "error"   ->
                /\ error_count' = error_count + 1
                /\ UNCHANGED <<success_count, ipc, raised_in>>
         [] outcome = "raise"   ->
                /\ ipc' = "crashed"
                /\ raised_in' = "install_index_templates"
                /\ UNCHANGED <<success_count, error_count>>
    /\ UNCHANGED <<component_files, index_files, actor_template_exists,
                   component_result, index_result, ism_raised, calls>>
    /\ UNCHANGED notOs

\* lines 392-435: the second pass creates some of the failed templates, and
\* the return
IndexReturn(recovered) ==
    /\ ipc = "index_files" /\ todo = 0
    /\ recovered <= error_count
    /\ success_count' = success_count + recovered
    /\ error_count' = error_count - recovered
    /\ index_result' = InstallResult(success_count + recovered)
    /\ ipc' = "init"
    /\ UNCHANGED <<component_files, index_files, actor_template_exists, todo,
                   component_result, raised_in, ism_raised, calls>>
    /\ UNCHANGED notOs

\* lines 446-450: ISM_INIT is called; put_policy may raise inside it (line 118)
IsmInit(raises) ==
    /\ ipc = "init" /\ TemplatesInstalled(component_result, index_result)
    /\ calls' = Append(calls, "ISM_INIT")
    /\ ism_raised' = raises
    /\ ipc' = "alias"
    /\ UNCHANGED <<component_files, index_files, actor_template_exists, todo,
                   success_count, error_count, component_result, index_result,
                   raised_in>>
    /\ UNCHANGED notOs

\* lines 452-457: alias_init is called and main returns
AliasInit ==
    /\ ipc = "alias"
    /\ calls' = Append(calls, "alias_init")
    /\ ipc' = "done"
    /\ UNCHANGED <<component_files, index_files, actor_template_exists, todo,
                   success_count, error_count, component_result, index_result,
                   raised_in, ism_raised>>
    /\ UNCHANGED notOs

\* lines 446 and 457: neither install returned True, main returns
SkipInit ==
    /\ ipc = "init" /\ ~TemplatesInstalled(component_result, index_result)
    /\ ipc' = "done"
    /\ UNCHANGED <<component_files, index_files, actor_template_exists, todo,
                   success_count, error_count, component_result, index_result,
                   raised_in, ism_raised, calls>>
    /\ UNCHANGED notOs

OsInit == InitOs /\ IdleUploader /\ IdleFields /\ IdleNas /\ IdleSample /\ IdleGen /\ IdleCli /\ IdleMain /\ IdleFo /\ IdleStatus /\ IdleCt /\ IdleIng /\ IdleSu /\ IdleNl

OsNext ==
    \/ \E outcome \in ExtractOutcomes : ComponentExtract(outcome)
    \/ \E outcome \in FileOutcomes : ComponentFile(outcome)
    \/ \E actor_ok, answers_ok \in BOOLEAN : ComponentReturn(actor_ok, answers_ok)
    \/ \E outcome \in ExtractOutcomes : IndexExtract(outcome)
    \/ \E outcome \in FileOutcomes : IndexFile(outcome)
    \/ \E recovered \in 0..MaxTemplates : IndexReturn(recovered)
    \/ \E raises \in BOOLEAN : IsmInit(raises)
    \/ AliasInit
    \/ SkipInit

OsSpec == OsInit /\ [][OsNext]_vars

\* the position of a function's call in calls, 0 if main has not called it
CallOf(f) ==
    IF \E i \in 1..Len(calls) : calls[i] = f
    THEN CHOOSE i \in 1..Len(calls) : calls[i] = f
    ELSE 0

\* main has ended, by returning or by an exception
MainEnded == ipc \in {"done", "crashed"}

\* install_component_templates failed: it returned False or raised
ComponentFailed ==
    \/ raised_in = "install_component_templates"
    \/ (CallOf("install_component_templates") > 0 /\ ipc \notin {"start", "component_files"}
        /\ ~component_result)

\* C20: component templates are installed before index templates, and the
\* index templates are attempted even when the component install failed;
\* ISM_INIT and alias_init run only if one of the installs returned True,
\* ISM_INIT first, and alias_init runs even if ISM_INIT met an exception
C20_ProvisioningOrder ==
    /\ CallOf("install_index_templates") > 0 =>
           /\ CallOf("install_component_templates") > 0
           /\ CallOf("install_component_templates") < CallOf("install_index_templates")
    /\ (MainEnded /\ ComponentFailed) => CallOf("install_index_templates") > 0
    /\ (CallOf("ISM_INIT") > 0 \/ CallOf("alias_init") > 0) =>
           /\ raised_in = ""
           /\ ipc \in {"alias", "done"}
           /\ component_result \/ index_result
    /\ CallOf("alias_init") > 0 =>
           /\ CallOf("ISM_INIT") > 0
           /\ CallOf("ISM_INIT") < CallOf("alias_init")
    /\ (MainEnded /\ CallOf("ISM_INIT") > 0) => CallOf("alias_init") > 0

\* the component install returned False, the index install returned True,
\* put_policy raised in ISM_INIT and alias_init ran after it
C20_Witness ==
    /\ ipc = "done"
    /\ ~component_result /\ index_result
    /\ ism_raised
    /\ calls = <<"install_component_templates", "install_index_templates",
                 "ISM_INIT", "alias_init">>

(***************************************************************************)
(* install_component_templates: the templates of the archive and the       *)
(* fallback templates.                                                     *)
(***************************************************************************)
\* the names a template file of the archive can have: the two names that have
\* a fallback (lines 298 and 327) and another one
ActorName == "ocsf_1_1_0_actor"
AnswersName == "ocsf_1_1_0_answers"
TemplateNames == {ActorName, AnswersName, "ocsf_1_1_0_base"}

\* what the walk can do with a file (lines 239-259): put the template and have
\* it acknowledged, put it and count an error, fail to parse it (no put), or
\* let the OSError of open() escape
WalkOutcomes == {"created", "rejected", "unparsed", "raise"}

\* lines 279 and 309-310: the actor fallback is put if the walk saw no actor
\* template; the answers fallback is put whatever the walk saw
FallbackDue(name, seen) == IF name = ActorName THEN ~seen ELSE TRUE

Put(name, origin, acknowledged) == [name |-> name, origin |-> origin, acknowledged |-> acknowledged]

\* lines 218-226: the archive is extracted and the walk starts
InitCt ==
    /\ kpc = "walk"
    /\ archive \in SUBSET TemplateNames
    /\ walk = archive
    /\ actor_seen = FALSE
    /\ puts = <<>>

\* lines 229-259: the walk visits the file of a template
CtFile(name, outcome) ==
    /\ kpc = "walk" /\ name \in walk
    /\ walk' = walk \ {name}
    /\ actor_seen' = (actor_seen \/ name = ActorName)
    /\ CASE outcome = "created"  -> puts' = Append(puts, Put(name, "archive", TRUE)) /\ kpc' = kpc
         [] outcome = "rejected" -> puts' = Append(puts, Put(name, "archive", FALSE)) /\ kpc' = kpc
         [] outcome = "unparsed" -> puts' = puts /\ kpc' = kpc
         [] outcome = "raise"    -> puts' = puts /\ kpc' = "crashed"
    /\ UNCHANGED archive
    /\ UNCHANGED notCt

\* lines 278-307: the actor fallback
CtActor(acknowledged) ==
    /\ kpc = "walk" /\ walk = {}
    /\ puts' = IF FallbackDue(ActorName, actor_seen)
               THEN Append(puts, Put(ActorName, "fallback", acknowledged))
               ELSE puts
    /\ kpc' = "answers"
    /\ UNCHANGED <<archive, walk, actor_seen>>
    /\ UNCHANGED notCt

\* lines 309-339: the answers fallback and the return
CtAnswers(acknowledged) ==
    /\ kpc = "answers"
    /\ puts' = IF FallbackDue(AnswersName, actor_seen)
               THEN Append(puts, Put(AnswersName, "fallback", acknowledged))
               ELSE puts
    /\ kpc' = "returned"
    /\ UNCHANGED <<archive, walk, actor_seen>>
    /\ UNCHANGED notCt

CtInit == InitCt /\ IdleUploader /\ IdleFields /\ IdleNas /\ IdleSample /\ IdleGen /\ IdleCli /\ IdleMain /\ IdleFo /\ IdleStatus /\ IdleOs /\ IdleIng /\ IdleSu /\ IdleNl

CtNext ==
    \/ \E name \in TemplateNames, outcome \in WalkOutcomes : CtFile(name, outcome)
    \/ \E acknowledged \in BOOLEAN : CtActor(acknowledged)
    \/ \E acknowledged \in BOOLEAN : CtAnswers(acknowledged)

CtSpec == CtInit /\ [][CtNext]_vars

\* C21: a fallback template (actor, answers) is put only when no template of
\* that name was found among the extracted files, and a template the archive
\* supplied is never put again by the fallback
C21_FallbackOnlyWhenMissing ==
    \A i \in 1..Len(puts) :
        puts[i].origin = "fallback" =>
            /\ puts[i].name \notin archive
            /\ \A j \in 1..(i - 1) : puts[j].name # puts[i].name

\* the archive's actor template was put and the function returned without the
\* actor fallback
C21_Witness ==
    /\ kpc = "returned"
    /\ ActorName \in archive
    /\ \E i \in 1..Len(puts) : puts[i] = Put(ActorName, "archive", TRUE)
    /\ \A i \in 1..Len(puts) : puts[i].origin = "fallback" => puts[i].name # ActorName

(***************************************************************************)
(* run_continuous_ingestion of ingest_logs.py.                             *)
(***************************************************************************)
MaxRounds == 3

\* line 194: main passes refresh_interval=5
refresh_interval == 5

Did(what, result) == [what |-> what, result |-> result]

\* a loop that gives up after a failed ingest
AfterIngestGivesUp(ingested) == IF ingested THEN "sleep" ELSE "stopped"

\* lines 173-179: both branches log and go on to the sleep
AfterIngest(ingested) == "sleep"

\* lines 171-179: data that is None (or empty) is not ingested
AfterFetch(fetched) == IF fetched THEN "ingest" ELSE "sleep"

InitIng ==
    /\ rpc = "start"
    /\ template_ok = "none"
    /\ rounds = 0
    /\ interrupted = FALSE
    /\ trace = <<>>

\* lines 163 and 36-121: create_index_template returns True or False
CreateIndexTemplate(acknowledged) ==
    /\ rpc = "start"
    /\ template_ok' = IF acknowledged THEN "True" ELSE "False"
    /\ trace' = Append(trace, Did("create_index_template", acknowledged))
    /\ rpc' = IF acknowledged THEN "fetch" ELSE "returned"
    /\ UNCHANGED <<rounds, interrupted>>
    /\ UNCHANGED notIng

\* lines 170 and 123-134: fetch_sample_data returns the data or None
FetchSampleData(fetched) ==
    /\ rpc = "fetch" /\ rounds < MaxRounds
    /\ rounds' = rounds + 1
    /\ trace' = Append(trace, Did("fetch_sample_data", fetched))
    /\ rpc' = AfterFetch(fetched)
    /\ UNCHANGED <<template_ok, interrupted>>
    /\ UNCHANGED notIng

\* lines 173-176 and 136-156: ingest_data returns True or False
IngestData(ingested) ==
    /\ rpc = "ingest"
    /\ trace' = Append(trace, Did("ingest_data", ingested))
    /\ rpc' = AfterIngest(ingested)
    /\ UNCHANGED <<template_ok, rounds, interrupted>>
    /\ UNCHANGED notIng

\* line 179: time.sleep(self.refresh_interval), then the next pass
Sleep ==
    /\ rpc = "sleep"
    /\ trace' = Append(trace, Did("sleep", refresh_interval))
    /\ rpc' = "fetch"
    /\ UNCHANGED <<template_ok, rounds, interrupted>>
    /\ UNCHANGED notIng

\* a KeyboardInterrupt: inside the loop's try it is caught and the loop is left
\* (lines 181-183); during create_index_template it escapes the function
KeyboardInterrupt ==
    /\ rpc \in {"start", "fetch", "ingest", "sleep"}
    /\ interrupted' = TRUE
    /\ rpc' = IF rpc = "start" THEN "raised" ELSE "stopped"
    /\ UNCHANGED <<template_ok, rounds, trace>>
    /\ UNCHANGED notIng

IngInit == InitIng /\ IdleUploader /\ IdleFields /\ IdleNas /\ IdleSample /\ IdleGen /\ IdleCli /\ IdleMain /\ IdleFo /\ IdleStatus /\ IdleOs /\ IdleCt /\ IdleSu /\ IdleNl

IngNext ==
    \/ \E acknowledged \in BOOLEAN : CreateIndexTemplate(acknowledged)
    \/ \E fetched \in BOOLEAN : FetchSampleData(fetched)
    \/ \E ingested \in BOOLEAN : IngestData(ingested)
    \/ Sleep
    \/ KeyboardInterrupt

IngSpec == IngInit /\ [][IngNext]_vars

\* the last thing attempted
LastDone == trace[Len(trace)]

\* C22: nothing is fetched or ingested unless create_index_template returned
\* True first; after that a failed fetch or a failed ingest is followed by the
\* sleep of refresh_interval and the next fetch, and the loop is left only by
\* a KeyboardInterrupt
C22_LoopSurvivesFailures ==
    /\ [](\A i \in 1..Len(trace) :
              trace[i].what \in {"fetch_sample_data", "ingest_data"} =>
                  /\ i > 1
                  /\ trace[1] = Did("create_index_template", TRUE))
    /\ [](template_ok = "True" =>
              /\ rpc \in {"fetch", "ingest", "sleep", "stopped"}
              /\ rpc = "stopped" => interrupted
              /\ (trace # <<>> /\ LastDone.what \in {"fetch_sample_data", "ingest_data"}
                  /\ LastDone.result = FALSE /\ ~interrupted) => rpc = "sleep")
    /\ [][(rpc = "sleep" /\ ~interrupted')
            => (rpc' = "fetch" /\ trace' = Append(trace, Did("sleep", 5)))]_vars
    /\ [][(rpc = "fetch" /\ ~interrupted' /\ trace' # trace)
            => trace'[Len(trace')].what = "fetch_sample_data"]_vars

\* a fetch failed, an ingest failed, and a fetch was attempted after each
C22_Witness ==
    /\ rpc = "ingest"
    /\ ~interrupted
    /\ \E i, j \in 1..Len(trace) :
           /\ i < j
           /\ trace[i] = Did("fetch_sample_data", FALSE)
           /\ trace[j] = Did("ingest_data", FALSE)
    /\ LastDone = Did("fetch_sample_data", TRUE)
    /\ rounds = 3

(***************************************************************************)
(* upload_to_opensearch of samples/sampledata.py.                          *)
(***************************************************************************)
MaxSampleEvents == 3
MaxSampleBatch == 2

\* the JSON objects of the input list, by what map_to_ocsf does with them:
\* "http" has an 'http' object, "error" has event.result 'error', "plain" has
\* neither, "bad" is an object such as {"@timestamp": 5}, {"http": "GET /"} or
\* {"http": {"response": {"status_code": "500"}}}
EventKinds == {"http", "error", "plain", "bad"}

\* lines 27, 100-127 and 134: a member that is not of the expected type makes
\* map_to_ocsf raise TypeError or AttributeError
MapToOcsfRaises(kind) == kind = "bad"

\* lines 132, 171 and 188: the index name map_to_ocsf returns
MapToOcsfIndex(kind) ==
    CASE kind = "http"  -> "ocsf-1.1.0-4002-http_activity"
      [] kind = "error" -> "ocsf-1.1.0-6003-api_activity"
      [] OTHER          -> "ocsf-1.1.0-4001-network_activity"

\* lines 196-215: the events grouped by index and cut into batches
SuBatches(evl, size) ==
    LET evs   == [n \in 1..Len(evl) |-> [doc |-> n, index |-> MapToOcsfIndex(evl[n])]]
        order == IndexOrder(evs, {})
    IN  Concat([g \in 1..Len(order) |-> Slices(order[g], GroupOf(evs, order[g]), size)])

InitSu ==
    /\ qpc = "start"
    /\ events \in UNION {[1..n -> EventKinds] : n \in 0..MaxSampleEvents}
    /\ su_batch_size \in 1..MaxSampleBatch
    /\ su_batches = <<>>
    /\ su_bi = 0
    /\ su_successful = 0
    /\ su_failed = 0
    /\ uploaded = {}

\* lines 192-201: every event is mapped and grouped
SuMap ==
    /\ qpc = "start"
    /\ \A n \in 1..Len(events) : ~MapToOcsfRaises(events[n])
    /\ su_batches' = SuBatches(events, su_batch_size)
    /\ qpc' = "upload"
    /\ UNCHANGED <<events, su_batch_size, su_bi, su_successful, su_failed, uploaded>>
    /\ UNCHANGED notSu

\* line 198: map_to_ocsf raises, outside any try
SuMapRaises ==
    /\ qpc = "start"
    /\ \E n \in 1..Len(events) : MapToOcsfRaises(events[n])
    /\ qpc' = "raised"
    /\ UNCHANGED <<events, su_batch_size, su_batches, su_bi, su_successful, su_failed, uploaded>>
    /\ UNCHANGED notSu

\* lines 204-225: helpers.bulk returns, k of the batch's items failed
SuBulkReturn(k) ==
    /\ qpc = "upload" /\ su_bi < Len(su_batches)
    /\ k <= Len(su_batches[su_bi + 1].docs)
    /\ uploaded' = uploaded \cup Range(su_batches[su_bi + 1].docs)
    /\ su_successful' = su_successful + (Len(su_batches[su_bi + 1].docs) - k)
    /\ su_failed' = su_failed + k
    /\ su_bi' = su_bi + 1
    /\ UNCHANGED <<qpc, events, su_batch_size, su_batches>>
    /\ UNCHANGED notSu

\* lines 227-229: helpers.bulk raises, the batch is counted as failed
SuBulkRaise ==
    /\ qpc = "upload" /\ su_bi < Len(su_batches)
    /\ uploaded' = uploaded \cup Range(su_batches[su_bi + 1].docs)
    /\ su_failed' = su_failed + Len(su_batches[su_bi + 1].docs)
    /\ su_bi' = su_bi + 1
    /\ UNCHANGED <<qpc, events, su_batch_size, su_batches, su_successful>>
    /\ UNCHANGED notSu

\* line 231: return successful, failed
SuReturn ==
    /\ qpc = "upload" /\ su_bi = Len(su_batches)
    /\ qpc' = "returned"
    /\ UNCHANGED <<events, su_batch_size, su_batches, su_bi, su_successful, su_failed, uploaded>>
    /\ UNCHANGED notSu

SuInit == InitSu /\ IdleUploader /\ IdleFields /\ IdleNas /\ IdleSample /\ IdleGen /\ IdleCli /\ IdleMain /\ IdleFo /\ IdleStatus /\ IdleOs /\ IdleCt /\ IdleIng /\ IdleNl

SuNext ==
    \/ SuMap
    \/ SuMapRaises
    \/ \E k \in 0..MaxFailedItems : SuBulkReturn(k)
    \/ SuBulkRaise
    \/ SuReturn

SuSpec == SuInit /\ [][SuNext]_vars

\* C23: for every list of JSON-object events upload_to_opensearch returns a
\* pair and does not raise; an error while mapping or uploading one event
\* does not keep the other events from being uploaded
C23_ReturnsPairWhateverFails ==
    /\ qpc # "raised"
    /\ qpc = "returned" =>
           /\ \A n \in 1..Len(events) : ~MapToOcsfRaises(events[n]) => n \in uploaded
           /\ su_successful + su_failed = Cardinality(uploaded)

\* a bulk call raised for one batch, the batch after it was uploaded and the
\* function returned its pair
C23_Witness ==
    /\ qpc = "returned"
    /\ Len(su_batches) = 2
    /\ su_failed = Len(su_batches[1].docs)
    /\ su_successful = Len(su_batches[2].docs)
    /\ uploaded = 1..Len(events)

(***************************************************************************)
(* The composer's generator types and its final summary.                   *)
(***************************************************************************)
\* the events generate_batch makes for config c
DocsOfConfig(c) == Range(GeneratedDocs((c - 1) * nevents + 1, nevents))

\* the documents handed to helpers.bulk so far
SubmittedDocs == UNION {Range(submitted[b].docs) : b \in 1..Len(submitted)}

\* C24: a generator that failed to import or to run is skipped and the
\* generator types after it are still generated and uploaded; the final
\* summary is reached and printed whatever failed
C24_SummaryWhateverFails ==
    script = "composer" =>
        /\ pc = "config" =>
               \A c \in imported : c < cfg => DocsOfConfig(c) \subseteq SubmittedDocs
        /\ pc = "exited" =>
               /\ \A c \in imported : DocsOfConfig(c) \subseteq SubmittedDocs
               /\ exit_status = 0

\* the first generator was not imported, the second one's events were
\* uploaded and the summary was printed
C24_Witness ==
    /\ script = "composer" /\ pc = "exited"
    /\ 1 \notin imported /\ 2 \in imported
    /\ nevents > 0
    /\ DocsOfConfig(2) \subseteq SubmittedDocs
    /\ exit_status = 0

(***************************************************************************)
(* The non-continuous fetch loop of network_activity_script.py.            *)
(***************************************************************************)
MaxCount == 3
MaxFetchBatch == 2

\* process_and_upload_batch (lines 195-243) for n documents of which good were
\* written (file-only mode) or indexed (with a client): the pair it returns
ProcessAndUploadCounts(cl, dir, n, good) ==
    IF n = 0 THEN <<0, 0>>
    ELSE IF cl = "None" /\ dir THEN <<good, n - good>>
    ELSE IF cl # "None" THEN <<good, n - good>>
    ELSE <<0, 0>>

\* fetch_and_index_batch (lines 245-281) for a batch of size documents of which
\* fetched were fetched and normalized: the pair it returns
FetchAndIndexCounts(cl, dir, size, fetched, good) ==
    IF fetched > 0
    THEN <<ProcessAndUploadCounts(cl, dir, fetched, good)[1],
           ProcessAndUploadCounts(cl, dir, fetched, good)[2] + (size - fetched)>>
    ELSE <<0, size - fetched>>

\* lines 437-476 and 491: the loop starts with or without a client, with or
\* without an output directory
InitNl ==
    /\ lpc = "loop"
    /\ arg_count \in 0..MaxCount
    /\ arg_batch_size \in 1..MaxFetchBatch
    /\ nl_client \in {"None", "client"}
    /\ nl_output_dir \in BOOLEAN
    /\ nl_remaining = arg_count
    /\ nl_sizes = <<>>
    /\ nl_total_success = 0
    /\ nl_total_error = 0

\* lines 492-503: one pass of the loop
NlBatch(fetched, good) ==
    /\ lpc = "loop" /\ nl_remaining > 0
    /\ LET current_batch == Min(nl_remaining, arg_batch_size)
           counts == FetchAndIndexCounts(nl_client, nl_output_dir, current_batch, fetched, good)
       IN  /\ fetched <= current_batch
           /\ good <= fetched
           /\ nl_sizes' = Append(nl_sizes, current_batch)
           /\ nl_total_success' = nl_total_success + counts[1]
           /\ nl_total_error' = nl_total_error + counts[2]
           /\ nl_remaining' = nl_remaining - current_batch
    /\ UNCHANGED <<lpc, arg_count, arg_batch_size, nl_client, nl_output_dir>>
    /\ UNCHANGED notNl

\* lines 492 and 508-514: remaining is 0, the loop is left and the totals logged
NlDone ==
    /\ lpc = "loop" /\ nl_remaining = 0
    /\ lpc' = "done"
    /\ UNCHANGED <<arg_count, arg_batch_size, nl_client, nl_output_dir, nl_remaining,
                   nl_sizes, nl_total_success, nl_total_error>>
    /\ UNCHANGED notNl

\* lines 504-507: a KeyboardInterrupt or another exception ends the loop early
NlInterrupt ==
    /\ lpc = "loop" /\ nl_remaining > 0
    /\ lpc' = "interrupted"
    /\ UNCHANGED <<arg_count, arg_batch_size, nl_client, nl_output_dir, nl_remaining,
                   nl_sizes, nl_total_success, nl_total_error>>
    /\ UNCHANGED notNl

NlInit == InitNl /\ IdleUploader /\ IdleFields /\ IdleNas /\ IdleSample /\ IdleGen /\ IdleCli /\ IdleMain /\ IdleFo /\ IdleStatus /\ IdleOs /\ IdleCt /\ IdleIng /\ IdleSu

NlNext ==
    \/ \E fetched, good \in 0..MaxFetchBatch : NlBatch(fetched, good)
    \/ NlDone
    \/ NlInterrupt

NlSpec == NlInit /\ [][NlNext]_vars

\* C25: with batch_size >= 1 the loop runs ceil(count / batch_size) batches
\* whose sizes sum to count and stops; on normal completion total_success +
\* total_error is count, with or without a client and an output directory
C25_BatchesCoverCount ==
    /\ \A b \in 1..Len(nl_sizes) : nl_sizes[b] >= 1 /\ nl_sizes[b] <= arg_batch_size
    /\ lpc = "done" =>
           /\ Len(nl_sizes) = (arg_count + arg_batch_size - 1) \div arg_batch_size
           /\ SumSeq(nl_sizes) = arg_count
           /\ nl_total_success + nl_total_error = arg_count

\* a file-only run with an output directory completed three documents in
\* batches of two and one, one of them not fetched and one not written
C25_Witness ==
    /\ lpc = "done"
    /\ nl_client = "None" /\ nl_output_dir
    /\ nl_sizes = <<2, 1>>
    /\ nl_total_success = 1 /\ nl_total_error = 2

====
